---- MODULE Spec2Model ----
(***************************************************************************)
(* UPD loader: the upload pipeline (ProcessUPDFile), the archive extractor *)
(* and the MoySklad reconciliation (CreateInvoiceFromUPD).                 *)
(*                                                                         *)
(* Paths are sequences of components ("./temp/upd_1.zip" is                *)
(* <<".", "temp", "upd_1.zip">>, an empty component stands for a leading   *)
(* or doubled separator).  In the reconciliation money is an integer       *)
(* number of 1/1000 currency units on the document side and of kopecks on  *)
(* the MoySklad side.                                                      *)
(***************************************************************************)
EXTENDS Integers, Sequences, FiniteSets, TLC

VARIABLES
    \* ---- the upload pipeline, one entry per request (goroutine) ----
    upload,        \* the uploaded file of each request (input)
    pc,            \* position of each request in ProcessUPDFile
    tempZipPath,   \* ProcessUPDFile's tempZipPath, <<>> while unset
    extractDir,    \* extractArchive's extractDir, <<>> while unset
    idx,           \* extractArchive's loop index into reader.File
    parseErr,      \* error of ParseUPDArchive, "" while none
    parsed,        \* [meta, card, content]: whose bytes each parsed part came from
    result,        \* the ProcessingResult returned, NoResult before
    rm,            \* os.RemoveAll in progress: the directories it is in, outermost
                   \* first, each with the names it has read and not yet removed
    \* ---- the file system below TempDir ----
    files,         \* regular files: records [path, by, data]
    dirs,          \* directories: records [path, by]
    \* ---- one reconciliation (uploadToMoySkald of one request) ----
    doc,           \* the parsed UPDContent handed to CreateInvoiceFromUPD (input)
    rc,            \* the locals of the API calls in progress, and what was sent
    outcome,       \* the ProcessingResult ProcessUPDFile builds from it
    \* ---- one call of parseUPDContent ----
    mainXML,       \* the main document file it reads (input)
    updContent,    \* what it returned, NoContent before
    \* ---- concurrent calls of getOrCreateCounterparty ----
    cps            \* each request's buyer INN and position, and the external system's
                   \* counterparties: those it had and those the requests created

fsVars == <<files, dirs>>
reqVars == <<upload, pc, tempZipPath, extractDir, idx, parseErr, parsed, result, rm>>
reconVars == <<doc, rc, outcome>>
parseVars == <<mainXML, updContent>>

\* ---------------------------------------------------------------- bounds
NumRequests == 2
MaxEntries == 2
MaxItems == 2
MaxFlows == 2

\* ------------------------------------------------------- program constants
MaxFileSize == 10485760

Requests == 1..NumRequests
NoResult == [success |-> FALSE, errorCode |-> "none"]
NoParsed == [meta |-> 0, card |-> 0, content |-> 0]

\* config.TempDir ("./temp")
TempDir == <<".", "temp">>

\* ------------------------------------------------------------ path/filepath
\* filepath.Clean of a relative path: empty and "." components are dropped, ".."
\* removes the component before it and is kept when there is none to remove
RECURSIVE CleanFrom(_, _)
CleanFrom(out, rest) ==
    IF rest = <<>> THEN out
    ELSE LET c == Head(rest) IN
         IF c = "" \/ c = "." THEN CleanFrom(out, Tail(rest))
         ELSE IF c = ".."
              THEN IF out # <<>> /\ out[Len(out)] # ".."
                   THEN CleanFrom(SubSeq(out, 1, Len(out) - 1), Tail(rest))
                   ELSE CleanFrom(Append(out, ".."), Tail(rest))
              ELSE CleanFrom(Append(out, c), Tail(rest))

Clean(p) == CleanFrom(<<>>, p)

\* filepath.Join(a, b): the elements joined by a separator, then cleaned
Join(a, b) == Clean(a \o b)

\* filepath.Dir(p): all but the last element, cleaned
Dir(p) == IF p = <<>> THEN <<>> ELSE Clean(SubSeq(p, 1, Len(p) - 1))

\* strings.HasPrefix(path, dir + separator) on cleaned paths: dir followed by a
\* separator starts path exactly when dir's components start path's and more follow
HasPrefixSep(path, dir) ==
    /\ Len(path) > Len(dir)
    /\ SubSeq(path, 1, Len(dir)) = dir

\* ioutil.TempFile(TempDir, "upd_*.zip"): the directory, a separator, the pattern
\* with * replaced by a suffix no existing file has
ZipName(s) == "upd_" \o ToString(s) \o ".zip"
TempFileName(s) == Append(TempDir, ZipName(s))
Suffixes == 1..NumRequests

\* extractArchive's choice of the scratch directory
ExtractDirOf(zipPath) == Join(Dir(zipPath), <<"upd_extract">>)

\* ------------------------------------------------------------- file system
PathsOf(set) == {x.path : x \in set}
IsFile(fl, p) == p \in PathsOf(fl)
IsDir(ds, p) == p \in PathsOf(ds)
FileAt(fl, p) == CHOOSE x \in fl : x.path = p

Prefixes(p) == {SubSeq(p, 1, k) : k \in 1..Len(p)}

\* os.MkdirAll(p): fails when a prefix of p is a regular file
MkdirAllOk(fl, p) == \A q \in Prefixes(p) : ~IsFile(fl, q)
MkdirAll(ds, p, r) ==
    ds \cup {[path |-> q, by |-> r] : q \in {q \in Prefixes(p) : ~IsDir(ds, q)}}

Under(p, root) == Len(p) >= Len(root) /\ SubSeq(p, 1, Len(root)) = root

\* the names in the directory p
Children(fl, ds, p) ==
    {q[Len(p) + 1] : q \in {q \in PathsOf(fl) \cup PathsOf(ds) :
                                Len(q) = Len(p) + 1 /\ Under(q, p)}}

\* os.Remove(p) of a regular file
Remove(fl, p) == {x \in fl : x.path # p}

\* ---------------------------------------------------------------- archives
\* file.FileInfo().IsDir(): the mode of the entry's external attributes has the
\* directory bit, or the entry's name ends with a separator; the permission bits of
\* the mode are left out
IsDirEntry(entry) == entry.dir \/ (entry.name # <<>> /\ entry.name[Len(entry.name)] = "")

\* the security check made against the directory that holds the scratch directory
SecurityCheckTempDir(path, dir) == HasPrefixSep(path, Dir(dir))

\* the security check of extractArchive
SecurityCheck(path, dir) == HasPrefixSep(path, Clean(dir))

\* one iteration of extractArchive's loop for request r, run without another
\* request in between: [files, dirs, err]
ExtractOne(fl, ds, r, dir, entry) ==
    LET path == Join(dir, entry.name) IN
    IF ~SecurityCheck(path, dir)
    THEN [files |-> fl, dirs |-> ds, err |-> "invalid file path"]
    ELSE IF IsDirEntry(entry)
    THEN [files |-> fl,
          dirs |-> IF MkdirAllOk(fl, path) THEN MkdirAll(ds, path, r) ELSE ds,
          err |-> ""]
    ELSE IF ~MkdirAllOk(fl, Dir(path))
    THEN [files |-> fl, dirs |-> ds, err |-> "io"]
    ELSE IF entry.fault = "open" \/ IsDir(ds, path)
    THEN [files |-> fl, dirs |-> MkdirAll(ds, Dir(path), r), err |-> "io"]
    ELSE [files |-> Remove(fl, path)
                       \cup {[path |-> path, by |-> r, data |-> entry.data, open |-> {}]},
          dirs |-> MkdirAll(ds, Dir(path), r),
          err |-> IF entry.fault = "copy" THEN "io" ELSE ""]

\* ------------------------------------------------------------------ uploads
\* dir: the external attributes of the entry mark a directory
\* fault: "open" when file.Open fails (a compression method the reader does not
\* have), "copy" when io.Copy fails after the bytes (data) were written (a CRC-32
\* that does not match), "" for an entry that can be read
Entry(name, data, dir, fault) == [name |-> name, data |-> data, dir |-> dir, fault |-> fault]
MetaEntry == Entry(<<"meta.xml">>, "meta", FALSE, "")
CardEntry == Entry(<<"card.xml">>, "card", FALSE, "")
MainEntry == Entry(<<"main.xml">>, "main", FALSE, "")

\* a DocFlow record of meta.xml: its Id and the Path attributes of MainImage and
\* ExternalCard; the empty path is <<>>
DocFlow(id, mainPath, cardPath) == [id |-> id, mainPath |-> mainPath, cardPath |-> cardPath]
\* flows: the DocFlow records of the meta.xml the archive holds
Upload(size, zipExt, valid, entries) ==
    [present |-> TRUE, size |-> size, zipExt |-> zipExt, valid |-> valid,
     entries |-> entries, flows |-> <<DocFlow("F1", <<"main.xml">>, <<"card.xml">>)>>]
NoUpload ==
    [present |-> FALSE, size |-> 0, zipExt |-> FALSE, valid |-> FALSE,
     entries |-> <<>>, flows |-> <<>>]

Good == Upload(1, TRUE, TRUE, <<MetaEntry, CardEntry, MainEntry>>)
NoMeta == Upload(1, TRUE, TRUE, <<CardEntry, MainEntry>>)
InvalidZip == Upload(1, TRUE, FALSE, <<>>)
NotZip == Upload(1, FALSE, TRUE, <<MetaEntry, CardEntry, MainEntry>>)
TooLarge == Upload(MaxFileSize + 1, TRUE, TRUE, <<MetaEntry, CardEntry, MainEntry>>)
UploadsSpec == {Good, NoMeta, InvalidZip, NotZip, TooLarge}

\* entry names of the archives the extractor is run on
EntryNames ==
    { <<"meta.xml">>, <<"card.xml">>, <<"main.xml">>,
      <<"..", "..", "etc", "passwd">>,      \* ../../etc/passwd
      <<"", "etc", "passwd">>,              \* /etc/passwd
      <<"sub", "">>,                        \* sub/
      <<"sub", "..", "..", "x">>,           \* sub/../../x
      <<"..", "upd_extract", "x">>,         \* ../upd_extract/x
      <<"..", "">>,                         \* ../
      <<".">>,
      <<>> }
DataOf(name) ==
    IF name = <<"meta.xml">> THEN "meta"
    ELSE IF name = <<"card.xml">> THEN "card"
    ELSE IF name = <<"main.xml">> THEN "main"
    ELSE "junk"
RECURSIVE SeqsUpTo(_, _)
SeqsUpTo(S, n) ==
    IF n = 0 THEN {<<>>}
    ELSE LET shorter == SeqsUpTo(S, n - 1) IN
         shorter \cup {Append(q, x) : q \in shorter, x \in S}
ExtractUploads ==
    {Upload(1, TRUE, TRUE, es) :
        es \in SeqsUpTo({Entry(n, DataOf(n), FALSE, "") : n \in EntryNames}
                            \cup {Entry(<<"meta.xml">>, "meta", TRUE, ""),
                                  Entry(<<"d">>, "junk", TRUE, ""),
                                  Entry(<<"meta.xml">>, "meta", FALSE, "open"),
                                  Entry(<<"main.xml">>, "main", FALSE, "copy")}, MaxEntries)}
\* archives whose card or main document is not XML of its format
BadCard == Upload(1, TRUE, TRUE, <<MetaEntry, Entry(<<"card.xml">>, "junk", FALSE, ""), MainEntry>>)
BadMain == Upload(1, TRUE, TRUE, <<MetaEntry, CardEntry, Entry(<<"main.xml">>, "junk", FALSE, "")>>)

\* archives whose meta.xml holds any DocFlow records: without Id, without a path,
\* with a path that leads upwards (../upd_1.zip), is absolute (/card.xml) or leads
\* through a regular file (meta.xml/x)
DocFlowPool ==
    { DocFlow("F1", <<"main.xml">>, <<"card.xml">>),
      DocFlow("F2", <<"main.xml">>, <<"card.xml">>),
      DocFlow("", <<"main.xml">>, <<"card.xml">>),
      DocFlow("F3", <<>>, <<"card.xml">>),
      DocFlow("F4", <<"main.xml">>, <<>>),
      DocFlow("F5", <<"main.xml">>, <<"..", ZipName(1)>>),
      DocFlow("F6", <<"..", ZipName(1)>>, <<"card.xml">>),
      DocFlow("F7", <<"main.xml">>, <<"", "card.xml">>),
      DocFlow("F8", <<"main.xml">>, <<"meta.xml", "x">>) }
IndexUploads == {[Good EXCEPT !.flows = fs] : fs \in SeqsUpTo(DocFlowPool, MaxFlows)}

\* --------------------------------------------------------- ProcessUPDFile
Finished(r, code, ok) ==
    /\ result' = [result EXCEPT ![r] = [success |-> ok, errorCode |-> code]]
    /\ pc' = [pc EXCEPT ![r] = "done"]

\* the size and extension checks and EnsureTempDir
Start(r) ==
    /\ pc[r] = "idle"
    /\ UNCHANGED <<reconVars, parseVars, cps, rm>>
    /\ upload[r].present
    /\ UNCHANGED <<upload, tempZipPath, extractDir, idx, parseErr, parsed, files>>
    /\ IF upload[r].size > MaxFileSize
       THEN Finished(r, "FILE_TOO_LARGE", FALSE) /\ UNCHANGED dirs
       ELSE IF ~upload[r].zipExt
       THEN Finished(r, "INVALID_FILE_TYPE", FALSE) /\ UNCHANGED dirs
       ELSE \/ Finished(r, "TEMP_DIR_ERROR", FALSE) /\ UNCHANGED dirs
            \/ /\ dirs' = MkdirAll(dirs, Clean(TempDir), 0)
               /\ pc' = [pc EXCEPT ![r] = "save"]
               /\ UNCHANGED result

\* saveTempFile: the temp file is created, then the bytes are written into it
SaveTempFile(r) ==
    /\ pc[r] = "save"
    /\ UNCHANGED <<reconVars, parseVars, cps, rm>>
    /\ UNCHANGED <<upload, extractDir, idx, parseErr, parsed, dirs>>
    /\ \/ \* ioutil.TempFile fails
          /\ Finished(r, "TEMP_FILE_ERROR", FALSE)
          /\ UNCHANGED <<tempZipPath, files>>
       \/ \E s \in Suffixes :
            LET name == TempFileName(s)
                made == files \cup {[path |-> Clean(name), by |-> r, data |-> "zip",
                                     open |-> {}]}
            IN /\ ~IsFile(files, Clean(name))
               /\ files' = made
               /\ \/ \* tempFile.Write fails: "" is returned as the path
                     /\ Finished(r, "TEMP_FILE_ERROR", FALSE)
                     /\ UNCHANGED tempZipPath
                  \/ /\ tempZipPath' = [tempZipPath EXCEPT ![r] = name]
                     /\ pc' = [pc EXCEPT ![r] = "open"]
                     /\ UNCHANGED result

\* ParseUPDArchive returns an error: ProcessUPDFile answers PARSING_ERROR and its
\* deferred cleanupTempFiles is left to run
ParsingError(r) ==
    /\ result' = [result EXCEPT ![r] = [success |-> FALSE, errorCode |-> "PARSING_ERROR"]]
    /\ pc' = [pc EXCEPT ![r] = "cleanupTemp"]

\* extractArchive up to its loop: the scratch directory is named, the zip opened,
\* the scratch directory made; os.MkdirAll fails when a regular file is in the way
\* and when the system refuses (no permission, no space)
OpenArchive(r) ==
    /\ pc[r] = "open"
    /\ UNCHANGED <<reconVars, parseVars, cps, rm>>
    /\ UNCHANGED <<upload, tempZipPath, parsed, files>>
    /\ extractDir' = [extractDir EXCEPT ![r] = ExtractDirOf(tempZipPath[r])]
    /\ idx' = [idx EXCEPT ![r] = 1]
    /\ IF ~upload[r].valid \/ ~IsFile(files, Clean(tempZipPath[r]))
       THEN /\ parseErr' = [parseErr EXCEPT ![r] = "invalid ZIP file"]
            /\ ParsingError(r)
            /\ UNCHANGED dirs
       ELSE \/ /\ parseErr' = [parseErr EXCEPT ![r] = "failed to create extract directory"]
               /\ ParsingError(r)
               /\ UNCHANGED dirs
            \/ /\ MkdirAllOk(files, extractDir'[r])
               /\ dirs' = MkdirAll(dirs, extractDir'[r], r)
               /\ pc' = [pc EXCEPT ![r] = "extract"]
               /\ UNCHANGED <<parseErr, result>>

\* extractArchive's loop up to os.MkdirAll: the security check, a directory entry
\* whole, the parent directories of a file entry, or the return after the last entry
ExtractEntry(r) ==
    /\ pc[r] = "extract"
    /\ UNCHANGED <<reconVars, parseVars, cps, rm>>
    /\ UNCHANGED <<upload, tempZipPath, extractDir, parsed, files>>
    /\ \/ /\ idx[r] <= Len(upload[r].entries)
          /\ LET entry == upload[r].entries[idx[r]]
                 path == Join(extractDir[r], entry.name)
             IN IF ~SecurityCheck(path, extractDir[r])
                THEN /\ parseErr' = [parseErr EXCEPT ![r] = "invalid file path"]
                     /\ ParsingError(r)
                     /\ UNCHANGED <<idx, dirs>>
                ELSE IF IsDirEntry(entry)
                THEN /\ dirs' = IF MkdirAllOk(files, path) THEN MkdirAll(dirs, path, r)
                                ELSE dirs
                     /\ idx' = [idx EXCEPT ![r] = idx[r] + 1]
                     /\ UNCHANGED <<pc, parseErr, result>>
                ELSE IF ~MkdirAllOk(files, Dir(path))
                THEN /\ parseErr' = [parseErr EXCEPT ![r] = "io"]
                     /\ ParsingError(r)
                     /\ UNCHANGED <<idx, dirs>>
                ELSE /\ dirs' = MkdirAll(dirs, Dir(path), r)
                     /\ pc' = [pc EXCEPT ![r] = "extractOpen"]
                     /\ UNCHANGED <<idx, parseErr, result>>
       \/ /\ idx[r] > Len(upload[r].entries)
          /\ pc' = [pc EXCEPT ![r] = "meta"]
          /\ UNCHANGED <<idx, parseErr, result, dirs>>

\* file.Open, then os.OpenFile(path, O_WRONLY|O_CREATE|O_TRUNC): the file is made,
\* or emptied when it is there; open holds the requests that have it open for writing
OpenTarget(r) ==
    /\ pc[r] = "extractOpen"
    /\ UNCHANGED <<reconVars, parseVars, cps, rm>>
    /\ UNCHANGED <<upload, tempZipPath, extractDir, parsed, idx, dirs>>
    /\ LET entry == upload[r].entries[idx[r]]
           path == Join(extractDir[r], entry.name) IN
       IF entry.fault = "open" \/ ~IsDir(dirs, Dir(path)) \/ IsDir(dirs, path)
       THEN /\ parseErr' = [parseErr EXCEPT ![r] = "io"]
            /\ ParsingError(r)
            /\ UNCHANGED files
       ELSE /\ files' = Remove(files, path) \cup
                          {[path |-> path,
                            by |-> IF IsFile(files, path) THEN FileAt(files, path).by ELSE r,
                            data |-> "empty",
                            open |-> {r} \cup (IF IsFile(files, path)
                                               THEN FileAt(files, path).open ELSE {})]}
            /\ pc' = [pc EXCEPT ![r] = "extractCopy"]
            /\ UNCHANGED <<parseErr, result>>

\* io.Copy, the Close of the target and the check of io.Copy's error: the bytes go
\* to the file opened, which may
\* have been removed since; written over what another request wrote into the same
\* file since it was emptied, they are followed by the rest of the other's bytes
\* when those were longer
CopyEntry(r) ==
    /\ pc[r] = "extractCopy"
    /\ UNCHANGED <<reconVars, parseVars, cps, rm>>
    /\ UNCHANGED <<upload, tempZipPath, extractDir, parsed, dirs>>
    /\ LET entry == upload[r].entries[idx[r]]
           path == Join(extractDir[r], entry.name)
       IN /\ IF IsFile(files, path) /\ r \in FileAt(files, path).open
             THEN \E data \in {entry.data} \cup
                               (IF FileAt(files, path).data # "empty" THEN {"junk"} ELSE {}) :
                    files' = Remove(files, path) \cup
                               {[path |-> path, by |-> r, data |-> data,
                                 open |-> FileAt(files, path).open \ {r}]}
             ELSE UNCHANGED files
          /\ IF entry.fault = "copy"
             THEN /\ parseErr' = [parseErr EXCEPT ![r] = "io"]
                  /\ ParsingError(r)
                  /\ UNCHANGED idx
             ELSE /\ idx' = [idx EXCEPT ![r] = idx[r] + 1]
                  /\ pc' = [pc EXCEPT ![r] = "extract"]
                  /\ UNCHANGED <<parseErr, result>>

\* os.IsNotExist of os.Stat(p)'s error: nothing is at p, and no regular file is on
\* the way to it (that is another error)
NotExist(fl, ds, p) ==
    /\ ~IsFile(fl, p) /\ ~IsDir(ds, p)
    /\ \A q \in Prefixes(p) : ~IsFile(fl, q)

\* what reading the file at path p as a document of the kind wanted gives:
\* "unreadable" (no regular file is there), "malformed", or "ok"
ReadAs(fl, ds, p, kind) ==
    IF IsFile(fl, p)
    THEN IF FileAt(fl, p).data = kind THEN "ok" ELSE "malformed"
    ELSE "unreadable"

\* parseMetaXML's checks of the unmarshalled index: the error, "" without one
MetaInfoError(flows) ==
    IF Len(flows) = 0 THEN "no DocFlow found in meta.xml"
    ELSE IF flows[1].id = "" THEN "DocFlow ID not found"
    ELSE IF flows[1].mainPath = <<>> \/ flows[1].cardPath = <<>>
    THEN "file paths not found in meta.xml"
    ELSE ""
\* the MetaInfo parseMetaXML returned to request r: the first DocFlow of the index read
MetaInfoOf(r) == upload[parsed[r].meta].flows[1]

ParseFailed(r, msg) ==
    /\ parseErr' = [parseErr EXCEPT ![r] = msg]
    /\ pc' = [pc EXCEPT ![r] = "cleanupExtract"]
    /\ UNCHANGED parsed

\* parseMetaXML: os.Stat
ParseMetaXML(r) ==
    /\ pc[r] = "meta"
    /\ UNCHANGED <<reconVars, parseVars, cps, rm>>
    /\ UNCHANGED <<upload, tempZipPath, extractDir, idx, result, files, dirs>>
    /\ IF NotExist(files, dirs, Join(extractDir[r], <<"meta.xml">>))
       THEN ParseFailed(r, "meta.xml not found in archive")
       ELSE pc' = [pc EXCEPT ![r] = "metaRead"] /\ UNCHANGED <<parseErr, parsed>>

\* parseMetaXML: os.ReadFile, xml.Unmarshal and the checks of the index
ReadMetaXML(r) ==
    /\ pc[r] = "metaRead"
    /\ UNCHANGED <<reconVars, parseVars, cps, rm>>
    /\ UNCHANGED <<upload, tempZipPath, extractDir, idx, result, files, dirs>>
    /\ LET p == Join(extractDir[r], <<"meta.xml">>)
           got == ReadAs(files, dirs, p, "meta")
       IN IF got = "unreadable" THEN ParseFailed(r, "failed to read meta.xml")
          ELSE IF got = "malformed" THEN ParseFailed(r, "failed to parse meta.xml")
          ELSE IF MetaInfoError(upload[FileAt(files, p).by].flows) # ""
          THEN ParseFailed(r, MetaInfoError(upload[FileAt(files, p).by].flows))
          ELSE /\ parsed' = [parsed EXCEPT ![r].meta = FileAt(files, p).by]
               /\ pc' = [pc EXCEPT ![r] = "card"]
               /\ UNCHANGED parseErr

\* parseCardXML, with the card path the index read names: os.Stat
ParseCardXML(r) ==
    /\ pc[r] = "card"
    /\ UNCHANGED <<reconVars, parseVars, cps, rm>>
    /\ UNCHANGED <<upload, tempZipPath, extractDir, idx, result, files, dirs>>
    /\ IF NotExist(files, dirs, Join(extractDir[r], MetaInfoOf(r).cardPath))
       THEN ParseFailed(r, "card.xml not found")
       ELSE pc' = [pc EXCEPT ![r] = "cardRead"] /\ UNCHANGED <<parseErr, parsed>>

\* parseCardXML: readFileWithEncoding and xml.Unmarshal
ReadCardXML(r) ==
    /\ pc[r] = "cardRead"
    /\ UNCHANGED <<reconVars, parseVars, cps, rm>>
    /\ UNCHANGED <<upload, tempZipPath, extractDir, idx, result, files, dirs>>
    /\ LET p == Join(extractDir[r], MetaInfoOf(r).cardPath)
           got == ReadAs(files, dirs, p, "card")
       IN IF got = "unreadable" THEN ParseFailed(r, "failed to read card.xml")
          ELSE IF got = "malformed" THEN ParseFailed(r, "failed to parse card.xml")
          ELSE /\ parsed' = [parsed EXCEPT ![r].card = FileAt(files, p).by]
               /\ pc' = [pc EXCEPT ![r] = "content"]
               /\ UNCHANGED parseErr

\* parseUPDContent: os.Stat
ParseUPDContent(r) ==
    /\ pc[r] = "content"
    /\ UNCHANGED <<reconVars, parseVars, cps, rm>>
    /\ UNCHANGED <<upload, tempZipPath, extractDir, idx, result, files, dirs>>
    /\ IF NotExist(files, dirs, Join(extractDir[r], MetaInfoOf(r).mainPath))
       THEN ParseFailed(r, "main UPD file not found")
       ELSE pc' = [pc EXCEPT ![r] = "contentRead"] /\ UNCHANGED <<parseErr, parsed>>

\* parseUPDContent: readFileWithEncoding and the parse; a main document that does
\* not parse gives the basic content (-1)
ReadUPDContent(r) ==
    /\ pc[r] = "contentRead"
    /\ UNCHANGED <<reconVars, parseVars, cps, rm>>
    /\ UNCHANGED <<upload, tempZipPath, extractDir, idx, result, files, dirs>>
    /\ LET p == Join(extractDir[r], MetaInfoOf(r).mainPath)
           got == ReadAs(files, dirs, p, "main")
       IN IF got = "unreadable" THEN ParseFailed(r, "failed to read UPD file")
          ELSE /\ parsed' = [parsed EXCEPT ![r].content =
                                IF got = "ok" THEN FileAt(files, p).by ELSE -1]
               /\ pc' = [pc EXCEPT ![r] = "cleanupExtract"]
               /\ UNCHANGED parseErr

\* os.RemoveAll has returned: ParseUPDArchive returns to ProcessUPDFile after its
\* deferred cleanupExtractDir, ProcessUPDFile returns after its deferred
\* CleanupTempFiles; the error of os.RemoveAll is logged and nothing else
RemoveAllReturns(r) ==
    IF pc[r] \in {"cleanupExtract", "rmExtract"}
    THEN IF parseErr[r] # "" THEN ParsingError(r)
         ELSE pc' = [pc EXCEPT ![r] = "upload"] /\ UNCHANGED result
    ELSE pc' = [pc EXCEPT ![r] = "done"] /\ UNCHANGED result

\* os.RemoveAll(root), its simple case: os.Remove(root) takes away a regular file
\* or an empty directory, and a root that is not there is no error; otherwise the
\* directory is walked (walk is the position of the request while it is)
RemoveAllSimple(r, root, walk) ==
    IF IsFile(files, root)
    THEN files' = Remove(files, root) /\ UNCHANGED <<dirs, rm>> /\ RemoveAllReturns(r)
    ELSE IF ~IsDir(dirs, root) \/ Children(files, dirs, root) = {}
    THEN /\ dirs' = {x \in dirs : x.path # root}
         /\ UNCHANGED <<files, rm>>
         /\ RemoveAllReturns(r)
    ELSE /\ rm' = [rm EXCEPT ![r] = <<[dir |-> root, names |-> {}, read |-> FALSE]>>]
         /\ pc' = [pc EXCEPT ![r] = walk]
         /\ UNCHANGED <<files, dirs, result>>

\* ParseUPDArchive's deferred cleanupExtractDir: os.RemoveAll(extractDir)
CleanupExtractDir(r) ==
    /\ pc[r] = "cleanupExtract"
    /\ UNCHANGED <<reconVars, parseVars, cps>>
    /\ UNCHANGED <<upload, tempZipPath, extractDir, idx, parseErr, parsed>>
    /\ RemoveAllSimple(r, extractDir[r], "rmExtract")

\* one step of os.RemoveAll's walk (removeAllFrom) in the innermost directory it is
\* in: the directory is opened and its names are read, all at once; then each name
\* read is unlinked, a directory among them being walked in its turn; then the
\* directory itself is removed, which fails when names were added to it after the
\* reading. A name that is gone by the time of its turn is no error. Directories
\* are told apart by their paths.
RemoveAllFrom(r) ==
    /\ pc[r] \in {"rmExtract", "rmTemp"}
    /\ UNCHANGED <<reconVars, parseVars, cps>>
    /\ UNCHANGED <<upload, tempZipPath, extractDir, idx, parseErr, parsed>>
    /\ LET top == rm[r][Len(rm[r])]
           rest == SubSeq(rm[r], 1, Len(rm[r]) - 1)
           return == /\ rm' = [rm EXCEPT ![r] = rest]
                     /\ IF rest = <<>> THEN RemoveAllReturns(r) ELSE UNCHANGED <<pc, result>>
       IN IF ~top.read
          THEN IF ~IsDir(dirs, top.dir)
               THEN return /\ UNCHANGED <<files, dirs>>
               ELSE /\ rm' = [rm EXCEPT ![r] =
                                Append(rest, [top EXCEPT !.names = Children(files, dirs, top.dir),
                                                         !.read = TRUE])]
                    /\ UNCHANGED <<files, dirs, pc, result>>
          ELSE IF top.names # {}
          THEN \E n \in top.names :
                 LET p == Append(top.dir, n)
                     left == Append(rest, [top EXCEPT !.names = @ \ {n}])
                 IN IF IsDir(dirs, p)
                    THEN /\ rm' = [rm EXCEPT ![r] =
                                     Append(left, [dir |-> p, names |-> {}, read |-> FALSE])]
                         /\ UNCHANGED <<files, dirs, pc, result>>
                    ELSE /\ files' = Remove(files, p)
                         /\ rm' = [rm EXCEPT ![r] = left]
                         /\ UNCHANGED <<dirs, pc, result>>
          ELSE /\ dirs' = IF Children(files, dirs, top.dir) = {}
                          THEN {x \in dirs : x.path # top.dir} ELSE dirs
               /\ UNCHANGED files
               /\ return

\* uploadToMoySkald, by its outcome alone: it touches no file. When it panics
\* ProcessUPDFile returns no result and its deferred cleanup runs
UploadToMoySkald(r) ==
    /\ pc[r] = "upload"
    /\ UNCHANGED <<reconVars, parseVars, cps, rm>>
    /\ UNCHANGED <<upload, tempZipPath, extractDir, idx, parseErr, parsed, files, dirs>>
    /\ pc' = [pc EXCEPT ![r] = "cleanupTemp"]
    /\ \/ result' = [result EXCEPT ![r] = [success |-> TRUE, errorCode |-> ""]]
       \/ result' = [result EXCEPT ![r] =
                        [success |-> FALSE, errorCode |-> "MOYSKLAD_API_ERROR"]]
       \/ UNCHANGED result

\* CleanupTempFiles, deferred by ProcessUPDFile when tempZipPath is set: os.Remove
\* of the zip file
CleanupTempFiles(r) ==
    /\ pc[r] = "cleanupTemp"
    /\ UNCHANGED <<reconVars, parseVars, cps, rm>>
    /\ UNCHANGED <<upload, tempZipPath, extractDir, idx, parseErr, parsed, result, dirs>>
    /\ files' = Remove(files, Clean(tempZipPath[r]))
    /\ pc' = [pc EXCEPT ![r] = "cleanupTempDir"]

\* CleanupTempFiles: os.RemoveAll of the scratch directory beside the zip file
CleanupTempExtractDir(r) ==
    /\ pc[r] = "cleanupTempDir"
    /\ UNCHANGED <<reconVars, parseVars, cps>>
    /\ UNCHANGED <<upload, tempZipPath, extractDir, idx, parseErr, parsed>>
    /\ RemoveAllSimple(r, Join(Dir(tempZipPath[r]), <<"upd_extract">>), "rmTemp")

\* -------------------------------------------------------------------- texts
\* texts that are read character by character are sequences of one-character strings
Digits == {"0", "1", "2", "3", "4", "5", "6", "7", "8", "9"}
DigitVal(ch) ==
    CASE ch = "0" -> 0 [] ch = "1" -> 1 [] ch = "2" -> 2 [] ch = "3" -> 3 [] ch = "4" -> 4
      [] ch = "5" -> 5 [] ch = "6" -> 6 [] ch = "7" -> 7 [] ch = "8" -> 8 [] ch = "9" -> 9

RECURSIVE DigitsVal(_)
DigitsVal(q) == IF q = <<>> THEN 0 ELSE 10 * DigitsVal(SubSeq(q, 1, Len(q) - 1)) + DigitVal(q[Len(q)])
AllDigits(q) == \A i \in 1..Len(q) : q[i] \in Digits
IndexOf(q, ch) ==
    IF \E i \in 1..Len(q) : q[i] = ch
    THEN CHOOSE i \in 1..Len(q) : q[i] = ch /\ \A j \in 1..(i - 1) : q[j] # ch
    ELSE 0

\* the number written by the digits q is at most the number written by the digits m
\* (m without leading zeros); compared as texts, for numbers of any size
DigitsLeq(q, m) ==
    LET nz == {i \in 1..Len(q) : q[i] # "0"}
        t == IF nz = {} THEN <<>> ELSE SubSeq(q, CHOOSE i \in nz : \A j \in nz : i <= j, Len(q))
    IN \/ Len(t) < Len(m)
       \/ /\ Len(t) = Len(m)
          /\ \/ t = m
             \/ \E i \in 1..Len(t) : /\ DigitVal(t[i]) < DigitVal(m[i])
                                     /\ \A j \in 1..(i - 1) : t[j] = m[j]

\* the digits of the largest magnitude an integer of bitSize bits holds: 2^(bitSize-1)
\* when negative, 2^(bitSize-1) - 1 otherwise
IntLimit(bitSize, neg) ==
    IF bitSize = 32
    THEN <<"2", "1", "4", "7", "4", "8", "3", "6", "4", IF neg THEN "8" ELSE "7">>
    ELSE <<"9", "2", "2", "3", "3", "7", "2", "0", "3", "6", "8", "5", "4", "7", "7", "5",
           "8", "0", IF neg THEN "8" ELSE "7">>

\* regexp \d+ and FindAllString(...)[0]: the first run of digits, <<>> without one
RECURSIVE FirstDigitRun(_)
FirstDigitRun(q) ==
    IF q = <<>> THEN <<>>
    ELSE IF Head(q) \notin Digits THEN FirstDigitRun(Tail(q))
    ELSE LET n == CHOOSE k \in 1..Len(q) :
                      /\ AllDigits(SubSeq(q, 1, k))
                      /\ (k < Len(q) => q[k + 1] \notin Digits)
         IN SubSeq(q, 1, n)

\* ---------------------------------------------------------- reconciliation
\* decimal.Decimal values are integers counting 1/1000; IntPart truncates toward zero
Trunc(n, d) == IF n >= 0 THEN n \div d ELSE -((-n) \div d)
\* int64(x.Mul(decimal.NewFromInt(100)).IntPart()): kopecks of a decimal amount
Kopecks(amount) == Trunc(amount * 100, 1000)

\* vatRate: the VAT label of the line, character by character
Item(name, article, price, vatRate) ==
    [name |-> name, article |-> article, price |-> price, quantity |-> 1000,
     vatRate |-> vatRate]
ItemPool == {Item("N1", "A1", 99000, <<"2", "0", "%">>),
             Item("N1", "", 99005, <<"1", "0", "/", "1", "1", "0">>),
             Item("N1", "", 99005, <<"b", "e", "z">>),
             Item("N1", "", 99005, [i \in 1..20 |-> "9"])}
Buyers == {[name |-> "IP Petrov", inn |-> "500000000001", kpp |-> "770101001"],
           [name |-> "OOO Buyer", inn |-> "7711111111", kpp |-> "770101001"],
           [name |-> "OOO Other", inn |-> "7722222222", kpp |-> ""]}
\* the lines of a document: one line of any kind, or up to MaxItems lines that are
\* looked up in turn by article and by name
Lines(n) ==
    [k \in 1..n |-> IF k % 2 = 1 THEN Item("N1", "A1", 99000, <<"2", "0", "%">>)
                    ELSE Item("N1", "", 99005, <<"b", "e", "z">>)]
ItemLists == {<<i>> : i \in ItemPool} \cup {Lines(n) : n \in 1..MaxItems}
Docs ==
    {[invoiceNumber |-> "77", invoiceDate |-> "2024-03-05", sellerINN |-> "7700000000",
      buyer |-> b,
      requisite |-> q, items |-> is, totalWithVAT |-> t] :
        b \in Buyers, q \in {"", "42"}, is \in ItemLists, t \in {5000000}}
    \cup
    {[invoiceNumber |-> "77", invoiceDate |-> "2024-03-05", sellerINN |-> "7700000000",
      buyer |-> b,
      requisite |-> q, items |-> <<>>, totalWithVAT |-> t] :
        b \in Buyers, q \in {"", "42"}, t \in {0, 5000000}}
NoDoc ==
    [invoiceNumber |-> "", invoiceDate |-> "", sellerINN |-> "",
     buyer |-> [name |-> "", inn |-> "", kpp |-> ""],
     requisite |-> "", items |-> <<>>, totalWithVAT |-> 0]

\* the rows of a source invoice's positions, as the expand of the invoice returns them
Row(article, name, price) == [article |-> article, name |-> name, price |-> price]
RowSets ==
    { <<>>,
      <<Row("A1", "X", 15000)>>,
      <<Row("", "N1", 12000)>>,
      <<Row("A1", "X", 9900), Row("B", "N1", 5000)>> }

\* a source invoice: its id and the counterparty (agent) it was issued to
NoInvoice == [found |-> FALSE, id |-> "", agent |-> ""]
\* the full records the fetch of a hit can return: an invoice of the counterparty
\* cp, or one issued to another counterparty
InvoiceRecords(cp) ==
    {[found |-> TRUE, id |-> "inv-1", agent |-> cp],
     [found |-> TRUE, id |-> "inv-2", agent |-> "cp-other"]}
\* the ids a created record can come back with: "" for an answer without a string id
CreatedIDs(id) == {id, ""}
StoreKinds == {"none", "inline", "ref"}
NoPayload == [sent |-> FALSE]

RcIdle ==
    [rpc |-> "off", phase |-> "demand", calls |-> {}, sawFailure |-> FALSE,
     afterFailure |-> FALSE, steps |-> <<>>, supplierOrg |-> "", counterparty |-> "",
     counterpartyData |-> NoPayload, pattern |-> "", hits |-> <<>>,
     customerInvoice |-> NoInvoice,
     store |-> "", invRows |-> <<>>, itemIdx |-> 0, tried |-> <<>>, lookups |-> <<>>,
     positions |-> <<>>,
     missing |-> <<>>, demandData |-> NoPayload, demand |-> "", demandID |-> "",
     invoiceData |-> NoPayload, factureout |-> "", factureoutID |-> "", created |-> {},
     apiErr |-> ""]
\* links: the URLs the message text of the result contains
NoOutcome ==
    [success |-> FALSE, errorCode |-> "none", message |-> "", invoiceID |-> "",
     invoiceURL |-> "", links |-> {}]
\* GetInvoiceURL, GetDemandURL
GetInvoiceURL(invoiceID) == "https://online.moysklad.ru/app/#factureout/edit?id=" \o invoiceID
GetDemandURL(demandID) == "https://online.moysklad.ru/app/#demand/edit?id=" \o demandID

Failure(resp) == resp \in {"neterr", "status"}

\* makeRequest: the call is issued and answered; calls is the set of requests made so far
Called(c, call, resp) ==
    [c EXCEPT !.calls = @ \cup {call},
              !.sawFailure = @ \/ Failure(resp),
              !.afterFailure = @ \/ c.sawFailure]

\* a failed type assertion panics: the goroutine unwinds to handleUpdate's recover,
\* which logs it; ProcessUPDFile returns nothing and no result message is sent
Panicked(c) == [c EXCEPT !.rpc = "panicked"]

\* an error is returned up to ProcessUPDFile
Fail(c, msg) == [c EXCEPT !.apiErr = msg, !.rpc = "finish"]

StepDone(c, step) == [c EXCEPT !.steps = Append(@, step)]

\* getInvoicePositions' map: the price under a key, -1 when the key is absent; a later
\* row overwrites an earlier one and empty articles and names are not entered
MapGet(rows, field, val) ==
    LET hits == {i \in 1..Len(rows) : rows[i][field] = val} IN
    IF val = "" \/ hits = {} THEN -1
    ELSE rows[CHOOSE i \in hits : \A j \in hits : j <= i].price

\* the price of a position of createPositionsFromUPD
PositionPrice(item, rows) ==
    LET upd == Kopecks(item.price)
        byArticle == IF item.article # "" THEN MapGet(rows, "article", item.article) ELSE -1
        first == IF byArticle > 0 THEN byArticle ELSE upd
        byName == MapGet(rows, "name", item.name)
    IN IF first = upd /\ byName > 0 THEN byName ELSE first

\* getVATRate: the first run of digits of the label, 18 without one and 18 when
\* strconv.Atoi fails because the number does not fit an int (64 bits)
GetVATRate(label) ==
    LET run == FirstDigitRun(label) IN
    IF run = <<>> \/ ~DigitsLeq(run, IntLimit(64, FALSE)) THEN 18 ELSE DigitsVal(run)

Position(item, product, rows) ==
    [quantity |-> item.quantity, price |-> PositionPrice(item, rows),
     assortment |-> product, vat |-> GetVATRate(item.vatRate)]

\* a substitute position priced at the document's total even when that is zero
ServicePositionNoDefault(content, service) ==
    [quantity |-> 1000, price |-> Kopecks(content.totalWithVAT),
     assortment |-> service, vat |-> 18]

\* the substitute position of createPositionsFromUPD when the document has no item
ServicePosition(content, service) ==
    [quantity |-> 1000,
     price |-> IF content.totalWithVAT > 0 THEN Kopecks(content.totalWithVAT) ELSE 1000 * 100,
     assortment |-> service, vat |-> 18]

\* a counterparty payload that carries the KPP of any buyer that has one
CounterpartyDataWithKpp(buyer) ==
    [sent |-> TRUE, name |-> buyer.name, inn |-> buyer.inn,
     companyType |-> IF Len(buyer.inn) = 12 THEN "individual" ELSE "legal",
     kpp |-> buyer.kpp]

\* the counterparty getOrCreateCounterparty creates; kpp "" is a payload without kpp
CounterpartyData(buyer) ==
    [sent |-> TRUE, name |-> buyer.name, inn |-> buyer.inn,
     companyType |-> IF Len(buyer.inn) = 12 THEN "individual" ELSE "legal",
     kpp |-> IF Len(buyer.inn) # 12 /\ buyer.kpp # "" THEN buyer.kpp ELSE ""]

\* InvoiceDate.Format("2006-01-02 15:04:05.000") of a date without time of day
FormatMoment(date) == date \o " 00:00:00.000"

\* an invoice payload that links to no demand
InvoiceDataUnlinked(content, c, ps, err) ==
    [sent |-> TRUE, name |-> content.invoiceNumber,
     moment |-> FormatMoment(content.invoiceDate), organization |-> c.supplierOrg,
     agent |-> c.counterparty, demands |-> "",
     positions |-> IF err = "" THEN ps ELSE <<>>, positionsNull |-> err # ""]

\* createDemand's demandData and mapUPDToFactureOut's invoiceData; the one-letter
\* prefix of the demand's name (U+041E in the source) is written with the Latin letter
DemandData(content, c, ps) ==
    [sent |-> TRUE, name |-> "O" \o content.invoiceNumber,
     moment |-> FormatMoment(content.invoiceDate), organization |-> c.supplierOrg,
     agent |-> c.counterparty, store |-> c.store, invoicesOut |-> c.customerInvoice.id,
     positions |-> ps]
\* positionsNull: positions is the nil slice that createPositionsFromUPD returns
\* beside an error
InvoiceData(content, c, ps, err) ==
    [sent |-> TRUE, name |-> content.invoiceNumber,
     moment |-> FormatMoment(content.invoiceDate), organization |-> c.supplierOrg,
     agent |-> c.counterparty, demands |-> c.demand,
     positions |-> IF err = "" THEN ps ELSE <<>>, positionsNull |-> err # ""]

\* createPositionsFromUPD returns to mapUPDToFactureOut, which drops its error and
\* returns: its customerInvoice is gone
PositionsDoneFacture(content, c, ps, err) ==
    [c EXCEPT !.invoiceData = InvoiceData(content, c, ps, err), !.rpc = "postFacture",
              !.customerInvoice = NoInvoice]

\* createDemand going on to its POST whatever createPositionsFromUPD returned
PositionsDoneDemandUnchecked(content, c, ps, err) ==
    IF err # "" THEN [c EXCEPT !.demandData = DemandData(content, c, <<>>),
                               !.rpc = "postDemand"]
    ELSE [StepDone(c, "positions") EXCEPT !.demandData = DemandData(content, c, ps),
                                          !.rpc = "postDemand"]

\* createPositionsFromUPD returns to createDemand
PositionsDoneDemand(content, c, ps, err) ==
    IF err # "" THEN Fail(c, err)
    ELSE [StepDone(c, "positions") EXCEPT !.demandData = DemandData(content, c, ps),
                                          !.rpc = "postDemand"]

PositionsDone(content, c, ps, err) ==
    IF c.phase = "demand" THEN PositionsDoneDemand(content, c, ps, err)
    ELSE PositionsDoneFacture(content, c, ps, err)

\* the end of createPositionsFromUPD's loop
AfterItems(content, c) ==
    IF c.missing # <<>> THEN PositionsDone(content, c, <<>>, "Products not found")
    ELSE IF c.positions = <<>> THEN [c EXCEPT !.rpc = "service"]
    ELSE PositionsDone(content, c, c.positions, "")

\* the loop going to the search by name whether or not the item has an article
ItemEntryNameFirst(content, c, i) ==
    IF i > Len(content.items) THEN AfterItems(content, c)
    ELSE [c EXCEPT !.itemIdx = i, !.rpc = "itemName"]

\* the head of createPositionsFromUPD's loop for item i
ItemEntry(content, c, i) ==
    IF i > Len(content.items) THEN AfterItems(content, c)
    ELSE [c EXCEPT !.itemIdx = i,
                   !.rpc = IF content.items[i].article # "" THEN "itemArticle" ELSE "itemName"]

EnterItems(content, c, rows) ==
    ItemEntry(content, [c EXCEPT !.invRows = rows, !.positions = <<>>, !.missing = <<>>,
                                 !.tried = <<>>, !.lookups = <<>>], 1)

\* tried and lookups record, for each item, the searches made and the product taken
ItemResolved(content, c, product) ==
    ItemEntry(content,
              [c EXCEPT !.positions =
                  Append(@, Position(content.items[c.itemIdx], product.meta, c.invRows)),
                        !.lookups = Append(@, [tried |-> c.tried, product |-> product]),
                        !.tried = <<>>],
              c.itemIdx + 1)

NoProduct == [meta |-> "", name |-> ""]
ItemMissing(content, c) ==
    ItemEntry(content,
              [c EXCEPT !.missing = Append(@, content.items[c.itemIdx].name),
                        !.lookups = Append(@, [tried |-> c.tried, product |-> NoProduct]),
                        !.tried = <<>>],
              c.itemIdx + 1)

\* findCustomerInvoice's searchPatterns; rc.pattern is the loop's pattern, "" outside
\* the loop; rc.hits has, for each filter the loop has got an answer to, the id of
\* the first row of the list, "" for an answer without a row
SearchPatterns(requisiteNumber) ==
    <<"name=" \o requisiteNumber, "name~" \o requisiteNumber,
      "description~" \o requisiteNumber>>

\* findCustomerInvoice returns inv (NoInvoice with its error)
AfterFindInvoice(content, c, inv) ==
    LET d == [c EXCEPT !.pattern = "", !.hits = <<>>, !.customerInvoice = inv] IN
    IF c.phase = "demand"
    THEN IF ~inv.found THEN Fail(d, "Customer invoice not found")
         ELSE [StepDone(d, "sourceInvoice") EXCEPT !.rpc = "store"]
    ELSE IF inv.found THEN [d EXCEPT !.rpc = "invPositions"]
         ELSE EnterItems(content, d, <<>>)

\* findCustomerInvoice: no call without a requisite number
EnterFindInvoice(content, c) ==
    IF content.requisite = "" THEN AfterFindInvoice(content, c, NoInvoice)
    ELSE [c EXCEPT !.pattern = SearchPatterns(content.requisite)[1], !.rpc = "invList"]

\* the loop goes on to the next pattern, or ends without an invoice
NextPattern(content, c) ==
    LET ps == SearchPatterns(content.requisite)
        i == CHOOSE k \in 1..Len(ps) : ps[k] = c.pattern
    IN IF i < Len(ps) THEN [c EXCEPT !.pattern = ps[i + 1], !.rpc = "invList"]
       ELSE AfterFindInvoice(content, c, NoInvoice)

BuyerResolved(content, c, cp) ==
    EnterFindInvoice(content, [StepDone(c, "buyer") EXCEPT !.counterparty = cp])

StoreResolved(c, s) ==
    [StepDone(c, "warehouse") EXCEPT !.store = s, !.rpc = "invPositions"]

SearchResponses == {"neterr", "status", "empty", "found"}
\* the name the catalog has for the product an article search returns
CatalogNames == {"N1", "Other"}
PostResponses == {"neterr", "status", "ok"}
\* a create call can also answer 200 with a body that does not decode
CreateResponses == PostResponses \cup {"undecodable"}

\* uploadToMoySkald: VerifyToken
VerifyToken ==
    /\ rc.rpc = "verify"
    /\ \E resp \in PostResponses :
         LET c == Called(rc, "GET /context/employee", resp) IN
         rc' = IF resp = "ok" THEN [c EXCEPT !.rpc = "seller"]
               ELSE Fail(c, "invalid MoySkald API token")
    /\ UNCHANGED <<doc, outcome, reqVars, fsVars, parseVars, cps>>

\* a seller resolution that creates the organization it did not find
FindOrganizationByINNOrCreate ==
    /\ rc.rpc = "seller"
    /\ \E resp \in SearchResponses :
         LET c == Called(rc, "GET /entity/organization", resp)
             made == [Called(c, "POST /entity/organization", "ok")
                         EXCEPT !.created = @ \cup {"organization"}] IN
         rc' = IF resp = "found"
               THEN [StepDone(c, "seller") EXCEPT !.supplierOrg = "org", !.rpc = "buyerSearch"]
               ELSE [StepDone(made, "seller") EXCEPT !.supplierOrg = "org-new",
                                                     !.rpc = "buyerSearch"]
    /\ UNCHANGED <<doc, outcome, reqVars, fsVars, parseVars, cps>>

\* findOrganizationByINN and the check of its error in CreateInvoiceFromUPD; the
\* first row is asserted to be an object
FindOrganizationByINN ==
    /\ rc.rpc = "seller"
    /\ \/ \E resp \in SearchResponses :
            LET c == Called(rc, "GET /entity/organization", resp) IN
            rc' = IF resp = "found"
                  THEN [StepDone(c, "seller") EXCEPT !.supplierOrg = "org",
                                                     !.rpc = "buyerSearch"]
                  ELSE Fail(c, "Supplier organization not found")
       \/ \* rows whose first element is not an object
          rc' = Panicked(Called(rc, "GET /entity/organization", "found"))
    /\ UNCHANGED <<doc, outcome, reqVars, fsVars, parseVars, cps>>

\* getOrCreateCounterparty: the search
SearchCounterparty ==
    /\ rc.rpc = "buyerSearch"
    /\ \/ \E resp \in SearchResponses :
            LET c == Called(rc, "GET /entity/counterparty", resp) IN
            rc' = IF resp = "neterr" THEN Fail(c, "Network error searching counterparty")
                  ELSE IF resp = "found" THEN BuyerResolved(doc, c, "cp-existing")
                  ELSE [c EXCEPT !.rpc = "buyerCreate"]
       \/ \* rows whose first element is not an object
          rc' = Panicked(Called(rc, "GET /entity/counterparty", "found"))
    /\ UNCHANGED <<doc, outcome, reqVars, fsVars, parseVars, cps>>

\* getOrCreateCounterparty: the creation
CreateCounterparty ==
    /\ rc.rpc = "buyerCreate"
    /\ \E resp \in CreateResponses :
         LET c == [Called(rc, "POST /entity/counterparty", resp)
                      EXCEPT !.counterpartyData = CounterpartyData(doc.buyer)]
             made == [c EXCEPT !.created = @ \cup {"counterparty"}] IN
         rc' = IF resp = "neterr" THEN Fail(c, "Network error creating counterparty")
               ELSE IF resp = "status" THEN Fail(c, "Error creating counterparty")
               ELSE IF resp = "undecodable"
               THEN Fail(made, "Failed to decode counterparty response")
               ELSE BuyerResolved(doc, made, "cp-new")
    /\ UNCHANGED <<doc, outcome, reqVars, fsVars, parseVars, cps>>

\* findCustomerInvoice: the list request of the current search pattern. The loop
\* goes on to the next pattern when the request fails, answers another status than
\* 200, a body that does not decode or no row ("empty"), and when the first row has
\* no meta.href; the first row is asserted to be an object
FindCustomerInvoiceList ==
    /\ rc.rpc = "invList"
    /\ \/ \E resp \in SearchResponses \ {"found"} :
            rc' = NextPattern(doc, [Called(rc, "GET /entity/invoiceout", resp)
                                       EXCEPT !.hits = Append(@, "")])
       \/ \E inv \in InvoiceRecords(rc.counterparty), href \in BOOLEAN :
            LET c == [Called(rc, "GET /entity/invoiceout", "found")
                         EXCEPT !.hits = Append(@, inv.id)] IN
            rc' = IF href THEN [c EXCEPT !.rpc = "invFetch"] ELSE NextPattern(doc, c)
       \/ \* rows whose first element is not an object
          rc' = Panicked([Called(rc, "GET /entity/invoiceout", "found")
                             EXCEPT !.hits = Append(@, "row")])
    /\ UNCHANGED <<doc, outcome, reqVars, fsVars, parseVars, cps>>

\* findCustomerInvoice: the fetch of the full record of the first row; when the
\* request fails, answers another status than 200 or a body that does not decode,
\* the loop goes on to the next pattern
FindCustomerInvoiceFetch ==
    /\ rc.rpc = "invFetch"
    /\ \/ \E resp \in {"neterr", "status", "undecodable"} :
            rc' = NextPattern(doc, Called(rc, "GET invoiceout href", resp))
       \/ LET inv == CHOOSE x \in InvoiceRecords(rc.counterparty) :
                         x.id = rc.hits[Len(rc.hits)] IN
          rc' = AfterFindInvoice(doc, Called(rc, "GET invoiceout href", "ok"), inv)
    /\ UNCHANGED <<doc, outcome, reqVars, fsVars, parseVars, cps>>

\* getStoreFromInvoice and the check of its error in createDemand. none: the
\* invoice has no store, or one that is no object, or one with neither name, id
\* nor meta.href; inline: the store has a name or an id; ref: it has neither and is
\* fetched by its meta.href, the record fetched being the store as it is
GetStoreFromInvoice ==
    /\ rc.rpc = "store"
    /\ \E kind \in StoreKinds :
         \/ /\ kind = "none"
            /\ rc' = Fail(rc, "Store not specified")
         \/ /\ kind = "inline"
            /\ rc' = StoreResolved(rc, "store")
         \/ /\ kind = "ref"
            /\ \E resp \in CreateResponses :
                 LET c == Called(rc, "GET store href", resp) IN
                 rc' = IF resp = "ok" THEN StoreResolved(c, "store")
                       ELSE Fail(c, "Store not specified")
    /\ UNCHANGED <<doc, outcome, reqVars, fsVars, parseVars, cps>>

\* getInvoicePositions: the invoice with its positions expanded, requested when the
\* invoice record has a meta.href; an answer of 200 whose body does not decode or
\* has no positions gives no rows, as a failed request does
GetInvoicePositions ==
    /\ rc.rpc = "invPositions"
    /\ \/ \* the invoice record has no meta.href: no request
          rc' = EnterItems(doc, rc, <<>>)
       \/ \E resp \in {"neterr", "status", "undecodable"} :
            rc' = EnterItems(doc, Called(rc, "GET invoiceout positions", resp), <<>>)
       \/ \E rows \in RowSets :
            rc' = EnterItems(doc, Called(rc, "GET invoiceout positions", "ok"), rows)
       \/ rc' = [Called(rc, "GET invoiceout positions", "ok") EXCEPT !.rpc = "invPositionsRef"]
       \/ \* a positions object with neither rows nor meta: data["meta"] is asserted
          \* to be an object
          rc' = Panicked(Called(rc, "GET invoiceout positions", "ok"))
    /\ UNCHANGED <<doc, outcome, reqVars, fsVars, parseVars, cps>>

\* parseInvoicePositions: positions given by reference are loaded separately
LoadPositionsByRef ==
    /\ rc.rpc = "invPositionsRef"
    /\ \/ \E resp \in {"neterr", "status", "undecodable"} :
            rc' = EnterItems(doc, Called(rc, "GET positions href", resp), <<>>)
       \/ \E rows \in RowSets :
            rc' = EnterItems(doc, Called(rc, "GET positions href", "ok"), rows)
    /\ UNCHANGED <<doc, outcome, reqVars, fsVars, parseVars, cps>>

\* findProductByArticle for the current item
FindProductByArticle ==
    /\ rc.rpc = "itemArticle"
    /\ \/ \E resp \in SearchResponses :
            LET c == [Called(rc, "GET /entity/product article", resp)
                         EXCEPT !.tried = Append(@, "article")] IN
            IF resp = "found"
            THEN \E n \in CatalogNames :
                   rc' = ItemResolved(doc, c,
                             [meta |-> "product:" \o doc.items[rc.itemIdx].article, name |-> n])
            ELSE rc' = [c EXCEPT !.rpc = "itemName"]
       \/ \* rows whose first element is not an object
          rc' = Panicked([Called(rc, "GET /entity/product article", "found")
                             EXCEPT !.tried = Append(@, "article")])
    /\ UNCHANGED <<doc, outcome, reqVars, fsVars, parseVars, cps>>

\* findProduct (by name) for the current item
FindProduct ==
    /\ rc.rpc = "itemName"
    /\ \/ \E resp \in SearchResponses :
            LET c == [Called(rc, "GET /entity/product name", resp)
                         EXCEPT !.tried = Append(@, "name")] IN
            rc' = IF resp = "found"
                  THEN ItemResolved(doc, c,
                           [meta |-> "product:" \o doc.items[rc.itemIdx].name,
                            name |-> doc.items[rc.itemIdx].name])
                  ELSE ItemMissing(doc, c)
       \/ \* rows whose first element is not an object
          rc' = Panicked([Called(rc, "GET /entity/product name", "found")
                             EXCEPT !.tried = Append(@, "name")])
    /\ UNCHANGED <<doc, outcome, reqVars, fsVars, parseVars, cps>>

\* getAnyAvailableService
GetAnyAvailableService ==
    /\ rc.rpc = "service"
    /\ \/ \E resp \in SearchResponses :
            LET c == Called(rc, "GET /entity/service", resp) IN
            rc' = IF resp = "found"
                  THEN PositionsDone(doc, c, <<ServicePosition(doc, "service")>>, "")
                  ELSE PositionsDone(doc, c, <<>>, "No available services")
       \/ \* rows whose first element is not an object
          rc' = Panicked(Called(rc, "GET /entity/service", "found"))
    /\ UNCHANGED <<doc, outcome, reqVars, fsVars, parseVars, cps>>

\* createDemand: the POST, and on success mapUPDToFactureOut up to its first call
PostDemand ==
    /\ rc.rpc = "postDemand"
    /\ \E resp \in CreateResponses :
         LET c == Called(rc, "POST /entity/demand", resp)
             made == [c EXCEPT !.created = @ \cup {"demand"}] IN
         IF resp = "neterr" THEN rc' = Fail(c, "Network error creating demand")
         ELSE IF resp = "status" THEN rc' = Fail(c, "Error creating demand")
         ELSE IF resp = "undecodable" THEN rc' = Fail(made, "Failed to decode demand response")
         ELSE \E id \in CreatedIDs("demand-1") :
                rc' = EnterFindInvoice(doc,
                          [StepDone(made, "shipment") EXCEPT !.demand = "demand-1",
                                                             !.demandID = id,
                                                             !.phase = "facture"])
    /\ UNCHANGED <<doc, outcome, reqVars, fsVars, parseVars, cps>>

\* an invoice creation that deletes the demand when it fails
PostFactureOutRollingBack ==
    /\ rc.rpc = "postFacture"
    /\ \E resp \in CreateResponses :
         LET c == Called(rc, "POST /entity/factureout", resp)
             made == [c EXCEPT !.created = @ \cup {"factureout"}]
             undone == [Called(c, "DELETE /entity/demand", "ok")
                           EXCEPT !.created = @ \ {"demand"}] IN
         IF resp = "neterr" THEN rc' = Fail(undone, "Network error creating invoice")
         ELSE IF resp = "status" THEN rc' = Fail(undone, "Error creating invoice")
         ELSE IF resp = "undecodable" THEN rc' = Fail(made, "Failed to decode invoice response")
         ELSE \E id \in CreatedIDs("factureout-1") :
                rc' = [StepDone(made, "invoice") EXCEPT !.factureout = "factureout-1",
                                                       !.factureoutID = id,
                                                       !.rpc = "finish"]
    /\ UNCHANGED <<doc, outcome, reqVars, fsVars, parseVars, cps>>

\* CreateInvoiceFromUPD: the POST of the invoice
PostFactureOut ==
    /\ rc.rpc = "postFacture"
    /\ \E resp \in CreateResponses :
         LET c == Called(rc, "POST /entity/factureout", resp)
             made == [c EXCEPT !.created = @ \cup {"factureout"}] IN
         IF resp = "neterr" THEN rc' = Fail(c, "Network error creating invoice")
         ELSE IF resp = "status" THEN rc' = Fail(c, "Error creating invoice")
         ELSE IF resp = "undecodable" THEN rc' = Fail(made, "Failed to decode invoice response")
         ELSE \E id \in CreatedIDs("factureout-1") :
                rc' = [StepDone(made, "invoice") EXCEPT !.factureout = "factureout-1",
                                                       !.factureoutID = id,
                                                       !.rpc = "finish"]
    /\ UNCHANGED <<doc, outcome, reqVars, fsVars, parseVars, cps>>

\* createSuccessResult: the ids of the two created records, "" for one without id
CreateSuccessResult(factureoutID, demandID) ==
    LET invoiceURL == IF factureoutID # "" THEN GetInvoiceURL(factureoutID) ELSE ""
        demandURL == IF demandID # "" THEN GetDemandURL(demandID) ELSE ""
    IN [success |-> TRUE, errorCode |-> "", message |-> "success",
        invoiceID |-> factureoutID, invoiceURL |-> invoiceURL,
        links |-> {invoiceURL, demandURL} \ {""}]

\* ProcessUPDFile after uploadToMoySkald: the error result or createSuccessResult
Finish ==
    /\ rc.rpc = "finish"
    /\ outcome' = IF rc.apiErr # ""
                  THEN [success |-> FALSE, errorCode |-> "MOYSKLAD_API_ERROR",
                        message |-> rc.apiErr, invoiceID |-> "", invoiceURL |-> "",
                        links |-> {}]
                  ELSE CreateSuccessResult(rc.factureoutID, rc.demandID)
    /\ rc' = [rc EXCEPT !.rpc = "done"]
    /\ UNCHANGED <<doc, reqVars, fsVars, parseVars, cps>>

ReconNext ==
    \/ VerifyToken
    \/ FindOrganizationByINN
    \/ SearchCounterparty
    \/ CreateCounterparty
    \/ FindCustomerInvoiceList
    \/ FindCustomerInvoiceFetch
    \/ GetStoreFromInvoice
    \/ GetInvoicePositions
    \/ LoadPositionsByRef
    \/ FindProductByArticle
    \/ FindProduct
    \/ GetAnyAvailableService
    \/ PostDemand
    \/ PostFactureOut
    \/ Finish

\* ------------------------------------------------------- parseUPDContent
\* The main document is given by what its XML says. Its decimal attributes are
\* sequences of one-character strings; its other texts are strings, those of
\* NonAsciiTexts standing for texts with Cyrillic letters. The element and
\* attribute names of the format are Cyrillic.
\* decimal.Decimal is value * 10^exp; decimal.Zero is New(0, 1)
Zero == [value |-> 0, exp |-> 1]

\* strconv.ParseInt(q, 10, bitSize) and, with bitSize 0, big.Int.SetString(q, 10):
\* an optional sign, then digits and nothing else; a number that does not fit
\* bitSize bits is an error (no number is too large for a big.Int)
ParseInt(q, bitSize) ==
    LET signed == q # <<>> /\ q[1] \in {"+", "-"}
        neg == signed /\ q[1] = "-"
        ds == IF signed THEN Tail(q) ELSE q
    IN IF /\ ds # <<>>
          /\ AllDigits(ds)
          /\ (bitSize # 0 => DigitsLeq(ds, IntLimit(bitSize, neg)))
       THEN [ok |-> TRUE,
             val |-> IF neg
                     THEN -10 * DigitsVal(SubSeq(ds, 1, Len(ds) - 1)) - DigitVal(ds[Len(ds)])
                     ELSE DigitsVal(ds)]
       ELSE [ok |-> FALSE, val |-> 0]

\* decimal.NewFromString: what follows the first e or E is the exponent, an integer
\* of 32 bits; the rest may hold one point; the text without the point is parsed as
\* an integer (of 64 bits when it has at most 18 characters, which always fit, a
\* big.Int otherwise) and the number of characters after the point is taken from
\* the exponent, which must still fit 32 bits
NewFromString(q) ==
    LET es == {i \in 1..Len(q) : q[i] \in {"E", "e"}}
        eIndex == IF es = {} THEN 0 ELSE CHOOSE i \in es : \A j \in es : i <= j
        expInt == IF eIndex = 0 THEN [ok |-> TRUE, val |-> 0]
                  ELSE ParseInt(SubSeq(q, eIndex + 1, Len(q)), 32)
        value == IF eIndex = 0 THEN q ELSE SubSeq(q, 1, eIndex - 1)
        points == {i \in 1..Len(value) : value[i] = "."}
        pIndex == IndexOf(value, ".")
        intString == IF pIndex = 0 THEN value
                     ELSE SubSeq(value, 1, pIndex - 1) \o SubSeq(value, pIndex + 1, Len(value))
        fraction == IF pIndex = 0 THEN 0 ELSE Len(value) - pIndex
        exp == expInt.val - fraction
        dValue == ParseInt(intString, 0)
    IN IF /\ expInt.ok
          /\ Cardinality(points) <= 1
          /\ dValue.ok
          /\ expInt.val >= (-2147483647 - 1) + fraction
       THEN [ok |-> TRUE, d |-> [value |-> dValue.val, exp |-> exp]]
       ELSE [ok |-> FALSE, d |-> [value |-> 0, exp |-> 0]]

\* parseDecimal: zero for an empty text and for a text that is no number
ParseDecimal(q) ==
    IF q = <<>> THEN Zero
    ELSE IF NewFromString(q).ok THEN NewFromString(q).d
    ELSE Zero

\* the sentinels "Не указан" (number) and "Не указано" (name), transliterated
NotSpecifiedNumber == "Ne ukazan"
NotSpecifiedName == "Ne ukazano"
SentinelINN == "0000000000"
SentinelOrganization == [name |-> NotSpecifiedName, inn |-> SentinelINN, kpp |-> ""]

NonAsciiTexts == {"#A-77"}
Party(legalName, legalINN, legalKPP, individualINN, surname, name, patronymic) ==
    [legalName |-> legalName, legalINN |-> legalINN, legalKPP |-> legalKPP,
     individualINN |-> individualINN, surname |-> surname, name |-> name,
     patronymic |-> patronymic]
NoParty == Party("", "", "", "", "", "", "")
Parties ==
    { Party("OOO Seller", "7700000000", "770101001", "", "", "", ""),
      Party("", "", "", "500000000000", "Ivanov", "Ivan", ""),
      Party("", "", "", "500000000000", "", "", ""),
      Party("OOO Both", "7711111111", "", "500000000001", "Petrov", "", ""),
      NoParty }
XmlItem(name, quantity, price, article) ==
    [name |-> name, quantity |-> quantity, price |-> price, article |-> article]
XmlItems ==
    { XmlItem("N1", <<"2">>, <<"9", "9", ".", "0", "0">>, "A1"),
      XmlItem("N2", <<"-", "5">>, <<"1", "0">>, ""),
      XmlItem("N3", <<"a", "b", "c">>, <<>>, "A3"),
      XmlItem("N4", <<"1">>, <<"-", "0", ".", "0", "1">>, ""),
      XmlItem("N5", <<"2", ".", "0", "0", "0", "0", "0", "0">>, <<"1", "2", ".", "5", "0">>, ""),
      XmlItem("N6", <<"1", "e", "3">>, <<".", "-", "5">>, ""),
      XmlItem("N7", <<"1", "e", "2", "1", "4", "7", "4", "8", "3", "6", "4", "8">>,
              <<"0", ".", "5", "e", "-", "2", "1", "4", "7", "4", "8", "3", "6", "4", "8">>, "") }

\* chars: characters of the trimmed text; nonAscii: how many of them are Cyrillic;
\* wide: how many of the Cyrillic letters have a second UTF-8 byte that Windows-1251
\* decodes to a character of three UTF-8 bytes (0x82, 0x84-0x89, 0x8B, 0x91-0x99,
\* 0x9B, 0xB9: the capitals U+0411 to U+0419 and U+041B, the small letters U+0439,
\* U+0442, U+0444 to U+0449, U+044B and U+0451);
\* endsR: the trimmed text ends with the capital letter U+0420, whose second UTF-8
\* byte 0xA0 Windows-1251 decodes to a no-break space (a text that is not XML);
\* encoding: of the file's bytes; declared: the encoding in the XML declaration;
\* wellFormed: the text is XML of the format's root element
\* requisite: the number attribute of the transfer basis, character by character
MainDoc(encoding, declared, wellFormed, chars, nonAscii, wide, endsR, number, seller, buyer, items, requisite) ==
    [encoding |-> encoding, declared |-> declared, wellFormed |-> wellFormed,
     chars |-> chars, nonAscii |-> nonAscii, wide |-> wide, endsR |-> endsR, number |-> number, seller |-> seller,
     buyer |-> buyer, items |-> items, requisite |-> requisite]
NoMain == MainDoc("", "", FALSE, 0, 0, 0, FALSE, "", NoParty, NoParty, <<>>, <<>>)
Requisites == {<<>>, <<"N", "4", "2", "/", "7">>, <<"b", "/", "n">>}
Encodings == {"cp1251", "utf8"}
Declarations == {"", "utf-8", "windows-1251"}
StubLimit == 100
\* documents of at most StubLimit characters: empty, the XML declaration alone, text
\* without markup of StubLimit and StubLimit + 1 characters, of 40 characters with
\* 20 Cyrillic letters, of 26 characters with 25 or 26 capitals U+0420, and a whole document
\* of 96 characters, 55 of them Cyrillic, with number 77 and the seller's INN
ShortDocs ==
    {MainDoc(e, d, FALSE, n, 0, 0, FALSE, "", NoParty, NoParty, <<>>, <<>>) :
        e \in Encodings, d \in {"", "windows-1251"}, n \in {0, 45, StubLimit, StubLimit + 1}}
    \cup
    {MainDoc(e, "", FALSE, 40, 20, w, FALSE, "", NoParty, NoParty, <<>>, <<>>) :
        e \in Encodings, w \in {0, 1, 20}}
    \cup
    {MainDoc(e, "", FALSE, 26, n, 0, TRUE, "", NoParty, NoParty, <<>>, <<>>) :
        e \in Encodings, n \in {25, 26}}
    \cup
    {MainDoc(e, "", TRUE, 96, 55, 11, FALSE, "77",
             Party("", "7700000000", "", "", "", "", ""), NoParty, <<>>, <<>>) :
        e \in Encodings}
LongDocs ==
    {MainDoc(e, d, w, 400, 200, 40, FALSE, n, sl, b, is, q) :
        e \in Encodings, d \in Declarations, w \in BOOLEAN, n \in {"", "77", "#A-77"},
        sl \in Parties, b \in Parties, is \in SeqsUpTo(XmlItems, MaxItems),
        q \in Requisites}
MainDocs == ShortDocs \cup LongDocs

\* readFileWithEncoding: the bytes are decoded as Windows-1251 whatever the file's
\* encoding is; a Cyrillic text of a UTF-8 file comes out as other letters
ReadFileWithEncoding(text, encoding) ==
    IF encoding = "utf8" /\ text \in NonAsciiTexts THEN "?" \o text ELSE text
\* len() of the decoded, trimmed content: bytes of UTF-8, two for a Cyrillic letter
\* of a Windows-1251 file; the two bytes of a letter of a UTF-8 file are decoded
\* as two characters, of two and two bytes or, for a wide letter, two and three;
\* strings.TrimSpace takes away the no-break space that the last byte of a final
\* U+0420 is decoded to
DecodedLen(m) ==
    IF m.encoding = "cp1251" THEN m.chars + m.nonAscii
    ELSE m.chars + 3 * m.nonAscii + m.wide - (IF m.endsR THEN 2 ELSE 0)
\* the same length counted in characters
DecodedLenInChars(m) ==
    IF m.encoding = "cp1251" THEN m.chars
    ELSE m.chars + m.nonAscii - (IF m.endsR THEN 1 ELSE 0)
\* xml.Unmarshal into UPDXML: no CharsetReader is set, so a declared encoding other
\* than UTF-8 is an error, as is a root element that is not the format's
UnmarshalOk(m) ==
    /\ m.wellFormed
    /\ m.declared \in {"", "utf-8"}
    /\ m.encoding = "cp1251"

\* createBasicUPDContent
CreateBasicUPDContent ==
    [invoiceNumber |-> NotSpecifiedNumber, seller |-> SentinelOrganization,
     buyer |-> SentinelOrganization, items |-> <<>>, requisiteNumber |-> <<>>]

\* strings.TrimSpace(fmt.Sprintf("%s %s %s", surname, name, patronymic)) for parts
\* that have no white space at their ends
TrimmedFullName(surname, name, patronymic) ==
    IF patronymic # ""
    THEN IF surname # "" THEN surname \o " " \o name \o " " \o patronymic
         ELSE IF name # "" THEN name \o " " \o patronymic
         ELSE patronymic
    ELSE IF name # "" THEN (IF surname # "" THEN surname \o " " \o name ELSE name)
    ELSE surname
\* an organization taken from the document without the default
ParseOrganizationNoDefault(p) ==
    IF p.legalINN # ""
    THEN [name |-> p.legalName, inn |-> p.legalINN, kpp |-> p.legalKPP]
    ELSE [name |-> TrimmedFullName(p.surname, p.name, p.patronymic),
          inn |-> p.individualINN, kpp |-> ""]

\* parseOrganization
ParseOrganization(p) ==
    IF p.legalINN # ""
    THEN [name |-> p.legalName, inn |-> p.legalINN, kpp |-> p.legalKPP]
    ELSE IF p.individualINN # ""
    THEN LET fullName == TrimmedFullName(p.surname, p.name, p.patronymic) IN
         [name |-> IF fullName = "" THEN NotSpecifiedName ELSE fullName,
          inn |-> p.individualINN, kpp |-> ""]
    ELSE SentinelOrganization

\* parseInvoiceItems
ParseInvoiceItems(xmlItems) ==
    [i \in 1..Len(xmlItems) |->
        [lineNumber |-> i, name |-> xmlItems[i].name,
         quantity |-> ParseDecimal(xmlItems[i].quantity),
         price |-> ParseDecimal(xmlItems[i].price),
         article |-> xmlItems[i].article]]

\* a parse that uses what the document says although xml.Unmarshal returned an error
ParseFullUPDContentIgnoringError(m) ==
    LET number == ReadFileWithEncoding(m.number, m.encoding) IN
    [invoiceNumber |-> IF number = "" THEN NotSpecifiedNumber ELSE number,
     seller |-> ParseOrganization(m.seller),
     buyer |-> ParseOrganization(m.buyer),
     items |-> ParseInvoiceItems(m.items),
     requisiteNumber |-> FirstDigitRun(m.requisite)]

\* parseFullUPDContent
ParseFullUPDContent(m) ==
    IF ~UnmarshalOk(m) THEN CreateBasicUPDContent
    ELSE LET number == ReadFileWithEncoding(m.number, m.encoding) IN
         [invoiceNumber |-> IF number = "" THEN NotSpecifiedNumber ELSE number,
          seller |-> ParseOrganization(m.seller),
          buyer |-> ParseOrganization(m.buyer),
          items |-> ParseInvoiceItems(m.items),
          requisiteNumber |-> FirstDigitRun(m.requisite)]

\* parseUPDContent on a main document that exists and can be read
ParseUPDContentText(m) ==
    [err |-> "",
     doc |-> IF DecodedLen(m) <= StubLimit THEN CreateBasicUPDContent
             ELSE ParseFullUPDContent(m)]

NoContent == [err |-> "none", doc |-> CreateBasicUPDContent]
ParseContent ==
    /\ updContent = NoContent
    /\ updContent' = ParseUPDContentText(mainXML)
    /\ UNCHANGED <<mainXML, reconVars, reqVars, fsVars, cps>>

\* ------------------------------------- getOrCreateCounterparty, concurrently
\* buyer INNs of the requests; the external system holds, for each INN, the
\* counterparties it had before (existing) and those created by the requests
BuyerINNs == {"500000000000", "7711111111"}
CpIdle ==
    [pc |-> [r \in Requests |-> "off"], inn |-> [r \in Requests |-> ""],
     existing |-> {}, created |-> [i \in BuyerINNs |-> 0]]
CpSearchResponses == {"neterr", "status", "rows", "badrows"}

\* the search by INN: the rows are the counterparties the external system has now
GetCounterparty(r) ==
    /\ cps.pc[r] = "search"
    /\ \E resp \in CpSearchResponses :
         LET has == cps.inn[r] \in cps.existing \/ cps.created[cps.inn[r]] > 0 IN
         cps' = [cps EXCEPT !.pc[r] =
                   IF resp = "neterr" THEN "failed"
                   ELSE IF resp = "badrows" THEN "panicked"
                   ELSE IF resp = "rows" /\ has THEN "found"
                   ELSE "create"]
    /\ UNCHANGED <<reconVars, reqVars, fsVars, parseVars>>

\* the POST of a new counterparty: a 200 answer means the external system made it
PostCounterparty(r) ==
    /\ cps.pc[r] = "create"
    /\ \E resp \in CreateResponses :
         cps' = IF resp \in {"neterr", "status"} THEN [cps EXCEPT !.pc[r] = "failed"]
               ELSE [cps EXCEPT !.pc[r] = IF resp = "ok" THEN "created" ELSE "failed",
                                !.created[cps.inn[r]] = @ + 1]
    /\ UNCHANGED <<reconVars, reqVars, fsVars, parseVars>>

CounterpartyNext == \E r \in Requests : GetCounterparty(r) \/ PostCounterparty(r)

PipelineNext ==
    \E r \in Requests :
        \/ Start(r)
        \/ SaveTempFile(r)
        \/ OpenArchive(r)
        \/ ExtractEntry(r)
        \/ OpenTarget(r)
        \/ CopyEntry(r)
        \/ ParseMetaXML(r)
        \/ ReadMetaXML(r)
        \/ ParseCardXML(r)
        \/ ReadCardXML(r)
        \/ ParseUPDContent(r)
        \/ ReadUPDContent(r)
        \/ CleanupExtractDir(r)
        \/ UploadToMoySkald(r)
        \/ CleanupTempFiles(r)
        \/ CleanupTempExtractDir(r)
        \/ RemoveAllFrom(r)

vars == <<upload, pc, tempZipPath, extractDir, idx, parseErr, parsed, result, rm, files, dirs,
          doc, rc, outcome, mainXML, updContent, cps>>

PipelineInit(uploads) ==
    /\ upload \in uploads
    /\ pc = [r \in Requests |-> "idle"]
    /\ tempZipPath = [r \in Requests |-> <<>>]
    /\ extractDir = [r \in Requests |-> <<>>]
    /\ idx = [r \in Requests |-> 0]
    /\ parseErr = [r \in Requests |-> ""]
    /\ parsed = [r \in Requests |-> NoParsed]
    /\ result = [r \in Requests |-> NoResult]
    /\ rm = [r \in Requests |-> <<>>]
    /\ files = {}
    /\ dirs = {}
    /\ doc = NoDoc
    /\ rc = RcIdle
    /\ outcome = NoOutcome
    /\ mainXML = NoMain
    /\ updContent = NoContent
    /\ cps = CpIdle

\* concurrent requests, each in its own goroutine (TelegramUPDBot.Run)
Init == PipelineInit([Requests -> UploadsSpec])
Next == PipelineNext
Spec == Init /\ [][Next]_vars

\* one request extracting an arbitrary archive
InitExtract ==
    PipelineInit({[r \in Requests |-> IF r = 1 THEN u ELSE NoUpload] :
                    u \in ExtractUploads \cup UploadsSpec \cup {BadCard, BadMain}
                            \cup IndexUploads})
SpecExtract == InitExtract /\ [][Next]_vars

\* one reconciliation of a parsed document, every call answered by the environment
InitRecon ==
    /\ upload = [r \in Requests |-> NoUpload]
    /\ pc = [r \in Requests |-> "idle"]
    /\ tempZipPath = [r \in Requests |-> <<>>]
    /\ extractDir = [r \in Requests |-> <<>>]
    /\ idx = [r \in Requests |-> 0]
    /\ parseErr = [r \in Requests |-> ""]
    /\ parsed = [r \in Requests |-> NoParsed]
    /\ result = [r \in Requests |-> NoResult]
    /\ rm = [r \in Requests |-> <<>>]
    /\ files = {}
    /\ dirs = {}
    /\ doc \in Docs
    /\ rc = [RcIdle EXCEPT !.rpc = "verify"]
    /\ outcome = NoOutcome
    /\ mainXML = NoMain
    /\ updContent = NoContent
    /\ cps = CpIdle
SpecRecon == InitRecon /\ [][ReconNext]_vars

\* every request in getOrCreateCounterparty, each in its own goroutine
InitCounterparty ==
    /\ upload = [r \in Requests |-> NoUpload]
    /\ pc = [r \in Requests |-> "idle"]
    /\ tempZipPath = [r \in Requests |-> <<>>]
    /\ extractDir = [r \in Requests |-> <<>>]
    /\ idx = [r \in Requests |-> 0]
    /\ parseErr = [r \in Requests |-> ""]
    /\ parsed = [r \in Requests |-> NoParsed]
    /\ result = [r \in Requests |-> NoResult]
    /\ rm = [r \in Requests |-> <<>>]
    /\ files = {}
    /\ dirs = {}
    /\ doc = NoDoc
    /\ rc = RcIdle
    /\ outcome = NoOutcome
    /\ mainXML = NoMain
    /\ updContent = NoContent
    /\ \E inns \in [Requests -> BuyerINNs], had \in SUBSET BuyerINNs :
         cps = [CpIdle EXCEPT !.pc = [r \in Requests |-> "search"], !.inn = inns,
                             !.existing = had]
SpecCounterparty == InitCounterparty /\ [][CounterpartyNext]_vars

\* one call of parseUPDContent on any main document
InitParse ==
    /\ upload = [r \in Requests |-> NoUpload]
    /\ pc = [r \in Requests |-> "idle"]
    /\ tempZipPath = [r \in Requests |-> <<>>]
    /\ extractDir = [r \in Requests |-> <<>>]
    /\ idx = [r \in Requests |-> 0]
    /\ parseErr = [r \in Requests |-> ""]
    /\ parsed = [r \in Requests |-> NoParsed]
    /\ result = [r \in Requests |-> NoResult]
    /\ rm = [r \in Requests |-> <<>>]
    /\ files = {}
    /\ dirs = {}
    /\ doc = NoDoc
    /\ rc = RcIdle
    /\ outcome = NoOutcome
    /\ mainXML \in MainDocs
    /\ updContent = NoContent
    /\ cps = CpIdle
ParseNext == ParseContent
SpecParse == InitParse /\ [][ParseNext]_vars

\* ------------------------------------------------------------------ claims
InParse(r) ==
    pc[r] \in {"extract", "extractOpen", "extractCopy", "meta", "metaRead", "card",
               "cardRead", "content", "contentRead", "cleanupExtract", "rmExtract"}

\* C1: any two requests that are extracting or parsing at the same time use distinct
\* scratch directories
C1_DistinctScratchDirs ==
    \A a, b \in Requests :
        (a # b /\ InParse(a) /\ InParse(b)) => extractDir[a] # extractDir[b]

\* ParseUPDArchive of request r's upload on a file system no other request touches
RECURSIVE ExtractAll(_, _, _, _, _)
ExtractAll(fl, ds, r, dir, es) ==
    IF es = <<>> THEN [files |-> fl, dirs |-> ds, err |-> ""]
    ELSE LET e == ExtractOne(fl, ds, r, dir, Head(es)) IN
         IF e.err # "" THEN e ELSE ExtractAll(e.files, e.dirs, r, dir, Tail(es))

AloneParse(r) ==
    LET zip == Clean(tempZipPath[r])
        dir == ExtractDirOf(tempZipPath[r])
        e == ExtractAll({[path |-> zip, by |-> r, data |-> "zip", open |-> {}]},
                        MkdirAll(MkdirAll({}, Clean(TempDir), 0), dir, r),
                        r, dir, upload[r].entries)
        meta == ReadAs(e.files, e.dirs, Join(dir, <<"meta.xml">>), "meta")
        info == upload[r].flows[1]
        card == ReadAs(e.files, e.dirs, Join(dir, info.cardPath), "card")
        main == ReadAs(e.files, e.dirs, Join(dir, info.mainPath), "main")
    IN IF ~upload[r].valid \/ e.err # "" \/ meta # "ok"
          \/ MetaInfoError(upload[r].flows) # "" \/ card # "ok"
          \/ main = "unreadable"
       THEN [ok |-> FALSE, parsed |-> NoParsed]
       ELSE [ok |-> TRUE,
             parsed |-> [meta |-> r, card |-> r, content |-> IF main = "ok" THEN r ELSE -1]]

\* C2: a request that got as far as parsing (the system having let it make its
\* scratch directory) ends with the parse outcome and the parsed document it has
\* when it runs alone, whatever the other requests do
C2_SameAsAlone ==
    \A r \in Requests :
        (/\ pc[r] = "done"
         /\ tempZipPath[r] # <<>>
         /\ parseErr[r] # "failed to create extract directory") =>
            /\ (parseErr[r] = "") = AloneParse(r).ok
            /\ AloneParse(r).ok => parsed[r] = AloneParse(r).parsed

\* C3: when ProcessUPDFile has returned, no file or directory the request made is left
C3_ArtifactsDeleted ==
    \A r \in Requests :
        pc[r] = "done" => \A x \in files \cup dirs : x.by # r

\* the place an entry name leads to from the scratch directory lies outside of it
Escapes(dir, name) == ~(Under(Clean(dir \o name), dir) /\ Clean(dir \o name) # dir)

ExtractionOver(r) ==
    /\ pc[r] \notin {"idle", "save", "open", "extract", "extractOpen", "extractCopy"}
    /\ extractDir[r] # <<>>

\* the archive was opened and extraction is over
Extracted(r) == ExtractionOver(r) /\ parseErr[r] # "invalid ZIP file"
HasEscaping(r) ==
    \E i \in 1..Len(upload[r].entries) : Escapes(extractDir[r], upload[r].entries[i].name)
\* what extraction makes lies strictly inside the scratch directory (or is the
\* scratch directory itself)
MadeInside(r) ==
    /\ \A x \in files : (x.by = r /\ x.data # "zip") =>
          HasPrefixSep(x.path, ExtractDirOf(tempZipPath[r]))
    /\ \A x \in dirs : x.by = r => Under(x.path, ExtractDirOf(tempZipPath[r]))

\* C4 (as stated): extraction makes files and directories only strictly inside the
\* scratch directory, and the extraction of an archive with an entry whose name
\* leads outside fails with the path-traversal error
C4_FailsWithPathError ==
    \A r \in Requests :
        /\ MadeInside(r)
        /\ (Extracted(r) /\ HasEscaping(r)) => parseErr[r] = "invalid file path"

\* C4 (amended): extraction makes files and directories only strictly inside the
\* scratch directory; the extraction of an archive with an entry whose name leads
\* outside fails, never going past the first such entry: at that entry with the
\* path-traversal error, before it with the error of the scratch directory that
\* could not be made or of an earlier entry that could not be extracted; and the
\* path-traversal error is returned at an entry whose name leads outside only
C4_ExtractStaysInside ==
    \A r \in Requests :
        /\ MadeInside(r)
        /\ (Extracted(r) /\ HasEscaping(r)) =>
              LET first == CHOOSE i \in 1..Len(upload[r].entries) :
                              /\ Escapes(extractDir[r], upload[r].entries[i].name)
                              /\ \A j \in 1..(i - 1) :
                                    ~Escapes(extractDir[r], upload[r].entries[j].name)
              IN \/ parseErr[r] = "invalid file path" /\ idx[r] = first
                 \/ parseErr[r] = "failed to create extract directory" /\ idx[r] = 1
                 \/ parseErr[r] = "io" /\ idx[r] < first
        /\ (Extracted(r) /\ parseErr[r] = "invalid file path") =>
              /\ idx[r] <= Len(upload[r].entries)
              /\ Escapes(extractDir[r], upload[r].entries[idx[r]].name)

\* ../../etc/passwd is refused after an earlier entry was written
C4_Witness ==
    /\ pc[1] = "cleanupTemp"
    /\ parseErr[1] = "invalid file path"
    /\ idx[1] = 2
    /\ upload[1].entries[2].name = <<"..", "..", "etc", "passwd">>
    /\ \E x \in files : x.by = 1 /\ x.data # "zip"

\* ---- reconciliation claims (SpecRecon)
StepOrder ==
    <<"seller", "buyer", "sourceInvoice", "warehouse", "positions", "shipment", "invoice">>
IsPrefix(a, b) == Len(a) <= Len(b) /\ SubSeq(b, 1, Len(a)) = a
Range(q) == {q[i] : i \in 1..Len(q)}

\* C5: the steps succeed in the order seller, buyer, source invoice, warehouse,
\* positions, shipment, invoice; the shipment-create call is issued only after the
\* first five succeeded, the invoice-create call only after the shipment was
\* created, and success is reported only after the invoice was created
C5_StrictStepOrder ==
    /\ IsPrefix(rc.steps, StepOrder)
    /\ (rc.rpc = "postDemand" \/ "POST /entity/demand" \in rc.calls) => Len(rc.steps) >= 5
    /\ (rc.rpc = "postFacture" \/ "POST /entity/factureout" \in rc.calls) => Len(rc.steps) >= 6
    /\ outcome.success => rc.steps = StepOrder
C5_Witness ==
    /\ outcome.success
    /\ rc.steps = StepOrder
    /\ {"POST /entity/demand", "POST /entity/factureout"} \subseteq rc.calls

\* an item of the document resolved to no product in an assembly of positions
ItemUnresolved == rc.missing # <<>>
NoDocumentCreated ==
    /\ "POST /entity/demand" \notin rc.calls
    /\ "POST /entity/factureout" \notin rc.calls
    /\ rc.rpc \notin {"postDemand", "postFacture"}
    /\ rc.rpc \in {"finish", "done"} => rc.apiErr = "Products not found"
    /\ rc.rpc = "done" => ~outcome.success /\ outcome.message = "Products not found"

\* C6: when an item resolves to no product the request fails with the
\* products-not-found error, issues neither the shipment-create nor the
\* invoice-create call, and nothing at all has been created in the external system
C6_NothingCreated == ItemUnresolved => NoDocumentCreated /\ rc.created = {}

\* C7: once a call of the reconciliation has returned a network error or a
\* non-200 status, no further external call is issued and the request fails
C7_NoCallAfterFailure ==
    /\ ~rc.afterFailure
    /\ (rc.sawFailure /\ rc.rpc = "done") => ~outcome.success

\* the error kind the taxonomy gives to the failure of each step
ErrorKindOf(msg) ==
    CASE msg = "Supplier organization not found" -> "SellerNotFound"
      [] msg = "Customer invoice not found" -> "SourceInvoiceNotFound"
      [] msg = "Store not specified" -> "WarehouseNotSpecified"
      [] msg = "Products not found" -> "ProductsNotFound"
      [] msg = "No available services" -> "NoServiceAvailable"
      [] msg \in {"Network error creating demand", "Error creating demand",
                  "Failed to decode demand response"} -> "ShipmentCreationFailed"
      [] msg \in {"Network error creating invoice", "Error creating invoice",
                  "Failed to decode invoice response"} -> "InvoiceCreationFailed"
      [] OTHER -> "ExternalAPIFailure"

\* C8: the outcome of a failed reconciliation carries the error kind of the step
\* that failed
C8_StepErrorKind ==
    (rc.rpc = "done" /\ ~outcome.success /\ ErrorKindOf(rc.apiErr) # "ExternalAPIFailure")
        => outcome.errorCode = ErrorKindOf(rc.apiErr)

\* C9: the positions of the invoice-create payload are those of the
\* shipment-create payload, whatever the lookups of the second assembly answered
C9_SamePositions ==
    rc.invoiceData.sent =>
        /\ ~rc.invoiceData.positionsNull
        /\ rc.invoiceData.positions = rc.demandData.positions

\* the price the precedence rule gives: the source invoice's price for the same
\* code, else its price for the same name, else the document's own price in kopecks
PrecedencePrice(item, rows) ==
    IF MapGet(rows, "article", item.article) >= 0 THEN MapGet(rows, "article", item.article)
    ELSE IF MapGet(rows, "name", item.name) >= 0 THEN MapGet(rows, "name", item.name)
    ELSE Kopecks(item.price)

\* C10: every assembled position carries the price of the precedence rule: a code
\* match in the source invoice wins over a name match and over the document's price
C10_PricePrecedence ==
    (rc.rpc \in {"postDemand", "postFacture"} /\ Len(rc.positions) = Len(doc.items)) =>
        \A i \in 1..Len(doc.items) :
            rc.positions[i].price = PrecedencePrice(doc.items[i], rc.invRows)

\* C11: for every item the search by article comes before the search by name, the
\* search by name is made only for an item without article or after the search by
\* article returned nothing, and a product found by article is the one in the
\* position whatever name the catalog has for it
C11_CodeBeforeName ==
    \A i \in 1..Len(rc.lookups) :
        LET item == doc.items[i]
            l == rc.lookups[i] IN
        /\ l.tried \in {<<"article">>, <<"article", "name">>, <<"name">>}
        /\ item.article # "" => l.tried[1] = "article"
        /\ l.tried = <<"name">> => item.article = ""
        /\ l.tried = <<"article">> => l.product.meta = "product:" \o item.article
        /\ rc.missing = <<>> => rc.positions[i].assortment = l.product.meta
C11_Witness ==
    /\ rc.rpc = "postDemand"
    /\ \E i \in 1..Len(rc.lookups) :
         /\ rc.lookups[i].tried = <<"article">>
         /\ rc.lookups[i].product.name # doc.items[i].name
         /\ rc.positions[i].assortment = "product:" \o doc.items[i].article

\* C12: no run creates an organization, and when the seller's organization is not
\* found the request fails with the seller-not-found error having made no call
\* after the organization search: no counterparty search and no creation
C12_SellerOnlyLookedUp ==
    /\ "POST /entity/organization" \notin rc.calls
    /\ "organization" \notin rc.created
    /\ rc.supplierOrg \in {"", "org"}
    /\ (rc.rpc \in {"finish", "done"} /\ "seller" \notin Range(rc.steps)) =>
          /\ rc.calls \subseteq {"GET /context/employee", "GET /entity/organization"}
          /\ rc.created = {}
          /\ "GET /entity/organization" \in rc.calls
                => rc.apiErr = "Supplier organization not found"
          /\ rc.rpc = "done" => ~outcome.success /\ outcome.message = rc.apiErr
C12_Witness ==
    /\ rc.rpc = "done"
    /\ rc.apiErr = "Supplier organization not found"
    /\ ~outcome.success
    /\ rc.calls = {"GET /context/employee", "GET /entity/organization"}

\* C13: the counterparty that is created is of type individual, without KPP, when
\* the buyer's INN has 12 characters, and otherwise of type legal with the buyer's
\* KPP exactly when the buyer has one
C13_TypeByInnLength ==
    rc.counterpartyData.sent =>
        /\ rc.counterpartyData.inn = doc.buyer.inn
        /\ Len(doc.buyer.inn) = 12 =>
              rc.counterpartyData.companyType = "individual" /\ rc.counterpartyData.kpp = ""
        /\ Len(doc.buyer.inn) # 12 =>
              rc.counterpartyData.companyType = "legal"
              /\ rc.counterpartyData.kpp = doc.buyer.kpp
C13_Witness ==
    /\ "counterparty" \in rc.created
    /\ Len(doc.buyer.inn) = 12
    /\ doc.buyer.kpp # ""
    /\ rc.counterpartyData.companyType = "individual"
    /\ rc.counterpartyData.kpp = ""

\* the requests the reconciliation makes: searches, fetches and the three creations
ReconCalls ==
    {"GET /context/employee", "GET /entity/organization", "GET /entity/counterparty",
     "POST /entity/counterparty", "GET /entity/invoiceout", "GET invoiceout href",
     "GET store href", "GET invoiceout positions", "GET positions href",
     "GET /entity/product article", "GET /entity/product name", "GET /entity/service",
     "POST /entity/demand", "POST /entity/factureout"}

\* C14: when the shipment was created and the creation of the invoice fails, the
\* request fails and makes no delete, cancel or other compensating call: the
\* shipment stays in the external system
C14_NoRollback ==
    ("shipment" \in Range(rc.steps) /\ "invoice" \notin Range(rc.steps)) =>
        /\ "demand" \in rc.created
        /\ rc.calls \subseteq ReconCalls
        /\ rc.rpc \in {"finish", "done"} =>
              /\ rc.apiErr # ""
              /\ "POST /entity/factureout" \in rc.calls
        /\ rc.rpc = "done" => ~outcome.success
C14_Witness ==
    /\ rc.rpc = "done"
    /\ ~outcome.success
    /\ rc.apiErr = "Error creating invoice"
    /\ rc.created = {"counterparty", "demand"}

\* ---- parsing claims (SpecParse)
Parsed == updContent # NoContent

\* C15: a main document of at most 100 characters after trimming parses to the
\* fallback document, seller and buyer unspecified with INN 0000000000 and no
\* items, whatever it contains, and without an error
C15_ShortIsStub ==
    (Parsed /\ DecodedLenInChars(mainXML) <= StubLimit) =>
        updContent.err = "" /\ updContent.doc = CreateBasicUPDContent

\* C16: a card document or a main document that cannot be parsed does not make
\* ParseUPDArchive return an error: only a missing or malformed index does
C16_OnlyIndexErrorsFatal ==
    \A r \in Requests :
        (parsed[r].meta # 0 /\ pc[r] \in {"cleanupExtract", "rmExtract", "upload", "cleanupTemp",
                                     "cleanupTempDir", "rmTemp", "done"})
            => parseErr[r] \notin {"failed to parse card.xml", "failed to parse UPD file"}

\* the main document came back as the fallback document: too short, or not XML of
\* the format
IsStub(m) == DecodedLen(m) <= StubLimit \/ ~UnmarshalOk(m)
HasNoINN(p) == p.legalINN = "" /\ p.individualINN = ""

\* C17: after a parse the INN of the seller and of the buyer is never empty: a party
\* for which the document gives neither a legal-entity nor an individual INN, and
\* each party of a stub, is the unspecified organization with INN 0000000000
C17_InnNeverEmpty ==
    Parsed =>
        /\ updContent.err = ""
        /\ updContent.doc.seller.inn # "" /\ updContent.doc.buyer.inn # ""
        /\ (IsStub(mainXML) \/ HasNoINN(mainXML.seller))
              => updContent.doc.seller = SentinelOrganization
        /\ (IsStub(mainXML) \/ HasNoINN(mainXML.buyer))
              => updContent.doc.buyer = SentinelOrganization
C17_Witness ==
    /\ Parsed
    /\ ~IsStub(mainXML)
    /\ mainXML.buyer = NoParty
    /\ updContent.doc.buyer = SentinelOrganization
    /\ updContent.doc.seller.inn = "500000000000"

\* C18: every item of a parsed document has lineNumber >= 1, the items being
\* numbered 1..n in order, and quantity >= 0 and price >= 0, whatever the quantity
\* and price attributes contain
C18_ItemsNonNegative ==
    Parsed =>
        \A i \in 1..Len(updContent.doc.items) :
            /\ updContent.doc.items[i].lineNumber = i
            /\ updContent.doc.items[i].quantity.value >= 0
            /\ updContent.doc.items[i].price.value >= 0

\* C20: the number of a valid main document that is not a stub (it has more than
\* 100 characters) is the number attribute of its header as written, and the
\* not-specified sentinel when the attribute is absent or empty
C20_NumberVerbatim ==
    (Parsed /\ mainXML.wellFormed /\ mainXML.chars > StubLimit) =>
        updContent.doc.invoiceNumber =
            IF mainXML.number = "" THEN NotSpecifiedNumber ELSE mainXML.number

\* the text of a decimal number: an optional sign, digits with at most one point
\* among them, and optionally an exponent: e or E, an optional sign, digits
ValidMantissa(q) ==
    LET u == IF q # <<>> /\ q[1] \in {"+", "-"} THEN Tail(q) ELSE q IN
    /\ \A k \in 1..Len(u) : u[k] \in Digits \cup {"."}
    /\ Cardinality({k \in 1..Len(u) : u[k] = "."}) <= 1
    /\ \E k \in 1..Len(u) : u[k] \in Digits
ValidExponent(q) ==
    LET u == IF q # <<>> /\ q[1] \in {"+", "-"} THEN Tail(q) ELSE q IN
    u # <<>> /\ AllDigits(u)
ValidNumber(q) ==
    LET es == {k \in 1..Len(q) : q[k] \in {"e", "E"}} IN
    IF es = {} THEN ValidMantissa(q)
    ELSE /\ Cardinality(es) = 1
         /\ LET k == CHOOSE k \in es : TRUE IN
            ValidMantissa(SubSeq(q, 1, k - 1)) /\ ValidExponent(SubSeq(q, k + 1, Len(q)))
\* a number that is not zero: its mantissa has a digit other than 0
NonZeroNumber(q) ==
    /\ ValidNumber(q)
    /\ \E k \in 1..Len(q) :
          /\ q[k] \in Digits \ {"0"}
          /\ \A j \in 1..k : q[j] \notin {"e", "E"}
ItemTexts == {"quantity", "price"}

\* C21: parseDecimal returns a decimal for every text: zero for the empty text and
\* for every text that is not a valid number ("abc"), the exact value for a valid
\* number ("12.50" is 12.50, "2" is 2, "1e3" is 1000), which is not zero when the
\* number is not
C21_ParseDecimalTotal ==
    (Parsed /\ ~IsStub(mainXML)) =>
        /\ Len(updContent.doc.items) = Len(mainXML.items)
        /\ \A i \in 1..Len(mainXML.items) : \A f \in ItemTexts :
              LET t == mainXML.items[i][f]
                  v == updContent.doc.items[i][f]
              IN /\ v.value \in Int /\ v.exp \in Int
                 /\ ~ValidNumber(t) => v.value = 0
                 /\ NonZeroNumber(t) => v.value # 0
                 /\ t = <<"1", "2", ".", "5", "0">> => v = [value |-> 1250, exp |-> -2]
                 /\ t = <<"2", ".", "0", "0", "0", "0", "0", "0">> =>
                        v = [value |-> 2000000, exp |-> -6]
                 /\ t = <<"1", "e", "3">> => v = [value |-> 1, exp |-> 3]
                 /\ (t # <<>> /\ AllDigits(t)) => v = [value |-> DigitsVal(t), exp |-> 0]

\* C23: a main document longer than the stub limit whose XML does not unmarshal
\* into the format parses, without an error, to the same fallback document as a
\* stub: seller and buyer unspecified with INN 0000000000, no items, no requisite
\* number
C23_StructuralErrorIsStub ==
    (Parsed /\ DecodedLen(mainXML) > StubLimit /\ ~UnmarshalOk(mainXML)) =>
        /\ updContent.err = ""
        /\ updContent.doc.seller = [name |-> NotSpecifiedName, inn |-> "0000000000", kpp |-> ""]
        /\ updContent.doc.buyer = updContent.doc.seller
        /\ updContent.doc.items = <<>>
        /\ updContent.doc.requisiteNumber = <<>>
        /\ updContent.doc = ParseUPDContentText(NoMain).doc
C23_Witness ==
    /\ Parsed
    /\ DecodedLen(mainXML) > StubLimit
    /\ ~mainXML.wellFormed
    /\ mainXML.seller.legalINN = "7700000000"
    /\ mainXML.items # <<>>
    /\ mainXML.requisite # <<>>
    /\ updContent.err = ""
    /\ updContent.doc = CreateBasicUPDContent

\* ---- source-invoice lookup (SpecRecon)
InvoiceCalls == {"GET /entity/invoiceout", "GET invoiceout href"}
Searching(c) == c.rpc \in {"invList", "invFetch"}
NotFoundMessage == "Customer invoice not found"
\* the filters answered so far yielded no result
NoHit(hits) == \A k \in 1..Len(hits) : hits[k] = ""
FirstHit(hits) == hits[CHOOSE k \in 1..Len(hits) : hits[k] # "" /\ NoHit(SubSeq(hits, 1, k - 1))]

\* one step of the reconciliation seen by C22
C22_Step ==
    LET exact == "name=" \o doc.requisite
        fuzzyName == "name~" \o doc.requisite
        fuzzyDescription == "description~" \o doc.requisite
    IN
    \* a filter is issued: the exact one opens the search, each other follows the one
    \* before it, and only when no filter before it yielded a result
    /\ (rc'.pattern # "" /\ rc'.pattern # rc.pattern) =>
          /\ rc'.rpc = "invList" /\ doc.requisite # ""
          /\ \/ ~Searching(rc) /\ rc.pattern = "" /\ rc'.pattern = exact
             \/ Searching(rc) /\ rc.pattern = exact /\ rc'.pattern = fuzzyName
             \/ Searching(rc) /\ rc.pattern = fuzzyName /\ rc'.pattern = fuzzyDescription
          /\ NoHit(rc'.hits)
    \* the record returned is the full record of the first hit
    /\ (Searching(rc) /\ rc'.pattern = "" /\ rc'.customerInvoice.found) =>
          /\ rc.rpc = "invFetch"
          /\ "GET invoiceout href" \in rc'.calls
          /\ rc'.customerInvoice.id = FirstHit(rc.hits)
    \* the search that returns no record fails, as does the one without a reference,
    \* which makes no call; no shipment is created then
    /\ (rc.phase = "demand" /\ Searching(rc) /\ rc'.pattern = ""
          /\ ~rc'.customerInvoice.found) =>
          rc'.apiErr = NotFoundMessage
    /\ (doc.requisite = "" /\ "buyer" \in Range(rc'.steps)) =>
          /\ rc'.apiErr = NotFoundMessage
          /\ rc'.calls \cap InvoiceCalls = {}
    /\ rc'.apiErr = NotFoundMessage =>
          /\ "demand" \notin rc'.created
          /\ "POST /entity/demand" \notin rc'.calls
          /\ rc'.rpc \in {"finish", "done"}

\* C22: the search for the source invoice issues the filters exact name, fuzzy name,
\* fuzzy description in this order, a later one only when every earlier one yielded
\* no result, and returns the full record of the first hit; it fails with "not
\* found" without a call when the reference is empty, and when no filter yields a
\* result, and then no shipment is created
C22_LookupOrder == [][C22_Step]_vars

\* ---- the substitute service position (SpecRecon)
ProductCalls == {"GET /entity/product article", "GET /entity/product name"}
NoServiceMessage == "No available services"

\* C24: the shipment's positions are the single service position exactly when the
\* document has no item: quantity 1 and the total with VAT in kopecks as price,
\* 100000 kopecks when the total is zero; without a service in the catalog the
\* assembly fails with "no available services" and no shipment is created; a
\* document with items never gets the service position
C24_ServiceSubstitute ==
    /\ doc.items # <<>> =>
          /\ "GET /entity/service" \notin rc.calls
          /\ rc.apiErr # NoServiceMessage
          /\ rc.demandData.sent =>
                /\ Len(rc.demandData.positions) = Len(doc.items)
                /\ \A i \in 1..Len(doc.items) :
                      rc.demandData.positions[i].assortment # "service"
    /\ (doc.items = <<>> /\ rc.demandData.sent) =>
          /\ rc.calls \cap ProductCalls = {}
          /\ Len(rc.demandData.positions) = 1
          /\ rc.demandData.positions[1].assortment = "service"
          /\ rc.demandData.positions[1].quantity = 1000
          /\ doc.totalWithVAT = 0 => rc.demandData.positions[1].price = 100000
          /\ doc.totalWithVAT > 0 =>
                rc.demandData.positions[1].price * 10 = doc.totalWithVAT
    /\ (rc.phase = "demand" /\ rc.apiErr = NoServiceMessage) =>
          /\ doc.items = <<>>
          /\ "GET /entity/service" \in rc.calls
          /\ ~rc.demandData.sent
          /\ "demand" \notin rc.created
          /\ "POST /entity/demand" \notin rc.calls
    /\ (rc.phase = "demand" /\ doc.items = <<>> /\ "GET /entity/service" \in rc.calls
          /\ rc.rpc # "panicked" /\ ~rc.demandData.sent) => rc.apiErr = NoServiceMessage
C24_Witness ==
    /\ rc.rpc = "done"
    /\ outcome.success
    /\ doc.items = <<>>
    /\ doc.totalWithVAT = 0
    /\ "demand" \in rc.created
    /\ Len(rc.demandData.positions) = 1
    /\ rc.demandData.positions[1].price = 100000

\* ---- the index document (SpecExtract)
PastMeta(r) ==
    pc[r] \in {"card", "cardRead", "content", "contentRead", "cleanupExtract", "rmExtract",
               "upload", "cleanupTemp", "cleanupTempDir", "rmTemp", "done"}
MalformedIndex ==
    {"failed to parse meta.xml", "no DocFlow found in meta.xml", "DocFlow ID not found",
     "file paths not found in meta.xml"}

\* C26: parseMetaXML succeeds only for an index with exactly one DocFlow record that
\* has an Id, a main-document path and a card path, and returns that record; it fails
\* with "not found" without an index file, and with a malformed-index error without a
\* DocFlow record, with an empty Id or with an empty path
C26_ExactlyOneFlow ==
    \A r \in Requests :
        /\ (PastMeta(r) /\ parsed[r].meta # 0) =>
              LET fs == upload[parsed[r].meta].flows IN
              /\ Len(fs) = 1
              /\ fs[1].id # "" /\ fs[1].mainPath # <<>> /\ fs[1].cardPath # <<>>
              /\ MetaInfoOf(r) = fs[1]
        /\ (PastMeta(r) /\ parseErr[r] = "meta.xml not found in archive") =>
              \A i \in 1..Len(upload[r].entries) :
                  Clean(upload[r].entries[i].name) # <<"meta.xml">>
        /\ (parseErr[r] # "" /\ upload[r].valid /\ upload[r].entries = Good.entries
              /\ (upload[r].flows = <<>> \/ upload[r].flows[1].id = ""
                    \/ upload[r].flows[1].mainPath = <<>>
                    \/ upload[r].flows[1].cardPath = <<>>)) =>
              parseErr[r] \in MalformedIndex

\* the card document, the main document of request r was opened and read
CardRead(r) ==
    /\ parsed[r].meta # 0
    /\ parsed[r].card # 0 \/ parseErr[r] = "failed to parse card.xml"
MainRead(r) == parsed[r].meta # 0 /\ parsed[r].content # 0

\* C30: the card document and the main document a request reads lie inside its
\* scratch directory: a path of the index that has .. or is absolute is not followed
\* to a file outside
C30_ReadsInsideScratch ==
    \A r \in Requests :
        /\ CardRead(r) =>
              HasPrefixSep(Join(extractDir[r], MetaInfoOf(r).cardPath), extractDir[r])
        /\ MainRead(r) =>
              HasPrefixSep(Join(extractDir[r], MetaInfoOf(r).mainPath), extractDir[r])

\* ---- concurrent counterparty resolution (SpecCounterparty)
\* C27: whatever the interleaving of the requests and the answers to their searches,
\* at most one counterparty is created for an INN, and none for an INN the external
\* system already has a counterparty for
C27_AtMostOneCounterparty ==
    \A i \in BuyerINNs :
        /\ cps.created[i] <= 1
        /\ i \in cps.existing => cps.created[i] = 0

\* C28: the source invoice that findCustomerInvoice selects for the shipment, whose
\* store and prices are used and to which the shipment is linked, was issued to the
\* buyer counterparty resolved before: an invoice of another counterparty is never
\* selected
C28_InvoiceOfBuyer ==
    /\ (rc.phase = "demand" /\ rc.customerInvoice.found) =>
          rc.customerInvoice.agent = rc.counterparty
    /\ rc.demandData.sent =>
          \A inv \in InvoiceRecords(rc.counterparty) :
              inv.id = rc.demandData.invoicesOut => inv.agent = rc.demandData.agent

\* C29: no answer of the external system makes the request panic: ProcessUPDFile
\* returns a ProcessingResult whatever the shape of the answers, so the result
\* message is sent for every upload that is processed
C29_NeverPanics ==
    /\ rc.rpc # "panicked"
    /\ rc.rpc = "done" => outcome # NoOutcome

\* ---- the two payloads (SpecRecon)
\* C25: in a successful request the shipment's payload is named with the prefix and
\* the invoice number and links to the source invoice that was found; the invoice's
\* payload is named with the invoice number alone and links to the shipment that the
\* shipment's creation returned; both name the resolved seller and buyer and carry
\* the document's date
C25_PayloadsLinked ==
    /\ rc.rpc = "postDemand" =>
          /\ rc.customerInvoice.found
          /\ rc.demandData.invoicesOut = rc.customerInvoice.id
    /\ (rc.rpc = "done" /\ outcome.success) =>
          /\ rc.demandData.sent /\ rc.invoiceData.sent
          /\ rc.demandData.name = "O" \o doc.invoiceNumber
          /\ rc.demandData.invoicesOut \in {"inv-1", "inv-2"}
          /\ rc.invoiceData.name = doc.invoiceNumber
          /\ rc.demand # "" /\ rc.invoiceData.demands = rc.demand
          /\ rc.supplierOrg # "" /\ rc.counterparty # ""
          /\ rc.demandData.organization = rc.supplierOrg
          /\ rc.invoiceData.organization = rc.supplierOrg
          /\ rc.demandData.agent = rc.counterparty
          /\ rc.invoiceData.agent = rc.counterparty
          /\ rc.demandData.moment = rc.invoiceData.moment
          /\ rc.demandData.moment = doc.invoiceDate \o " 00:00:00.000"
C25_Witness ==
    /\ rc.rpc = "done"
    /\ outcome.success
    /\ rc.counterparty = "cp-new"
    /\ rc.demandData.name = "O77"
    /\ rc.demandData.invoicesOut = "inv-1"
    /\ rc.invoiceData.name = "77"
    /\ rc.invoiceData.demands = "demand-1"
    /\ rc.invoiceData.moment = "2024-03-05 00:00:00.000"

\* the scenario: the seller was found, the buyer with a 12-character INN was not
\* and was created, the only item was found by its article, the source invoice was
\* found with its store, and both creations succeeded
EndToEndScenario ==
    /\ rc.supplierOrg # ""
    /\ Len(doc.buyer.inn) = 12
    /\ rc.counterparty = "cp-new"
    /\ Len(doc.items) = 1
    /\ doc.items[1].article # ""
    /\ rc.demandData.sent
    /\ Len(rc.demandData.positions) = 1
    /\ rc.demandData.positions[1].assortment = "product:" \o doc.items[1].article
    /\ rc.demandData.invoicesOut # ""
    /\ rc.demandData.store # ""
    /\ {"demand", "factureout"} \subseteq rc.created
    /\ rc.apiErr = ""

\* the fields of ProcessingResult that carry a shipment id: there is none
ShipmentIDOf(res) == IF "demandID" \in DOMAIN res THEN res.demandID ELSE ""

\* C19: in that scenario ProcessUPDFile returns success with both a shipment id
\* and an invoice id populated in the outcome
C19_BothIdsInOutcome ==
    (rc.rpc = "done" /\ EndToEndScenario) =>
        /\ outcome.success
        /\ outcome.invoiceID # ""
        /\ ShipmentIDOf(outcome) # ""

====
